---- MODULE Spec2Model ----
(***************************************************************************)
(* State-machine model of the OCX schema parser: OcxParser (document       *)
(* ingestion, namespace registry, raw element index) and Transformer       *)
(* (ancestor walk, attribute and child resolution).                        *)
(*                                                                         *)
(* Python strings are modelled as sequences of tokens, so that the         *)
(* prefix:name and {namespace}name conversions are computed and not        *)
(* assumed: "ocx:Vessel" is <<"ocx", ":", "Vessel">> and                   *)
(* "{uri}Vessel" is <<"{", uri, "}", "Vessel">>.                           *)
(***************************************************************************)
EXTENDS Integers, Sequences, FiniteSets, TLC

\* ------------------------------------------------------------------------
\* Bounds of the model
\* ------------------------------------------------------------------------
\* number of process_xsd_from_file calls in one session
MaxIngest == 2
\* number of files in one schema folder
MaxFolder == 2
\* depth of the _find_parents recursion that is followed
MaxDepth == 6

\* ------------------------------------------------------------------------
\* Python values
\* ------------------------------------------------------------------------
\* Python None, distinct from every string
NoneVal == <<"\\None">>
\* the empty string ""
EmptyStr == << >>
\* the None element (no lxml node)
NoneH == <<0, 0>>

\* str(x) as used by f-strings: None is rendered as "None"
Fmt(x) == IF x = NoneVal THEN <<"None">> ELSE x

Min(a, b) == IF a < b THEN a ELSE b

\* index of the first ":" of a string, 0 when there is none (str.find)
FindColon(s) ==
    IF \E i \in 1..Len(s) : s[i] = ":"
    THEN CHOOSE i \in 1..Len(s) : s[i] = ":" /\ \A j \in 1..(i - 1) : s[j] # ":"
    ELSE 0

namespace_prefix(s) ==
    IF FindColon(s) # 0 THEN SubSeq(s, 1, FindColon(s) - 1) ELSE NoneVal

strip_namespace_prefix(s) ==
    IF FindColon(s) # 0 THEN SubSeq(s, FindColon(s) + 1, Len(s)) ELSE s

unique_tag(name, namespace) == <<"{", namespace, "}">> \o name

\* QName(tag).namespace and QName(tag).localname of a "{namespace}name" tag
QNameNamespace(tag) ==
    IF Len(tag) >= 3 /\ tag[1] = "{" /\ tag[3] = "}" THEN tag[2] ELSE "\\None"
QNameLocalname(tag) ==
    IF Len(tag) >= 3 /\ tag[1] = "{" /\ tag[3] = "}" THEN SubSeq(tag, 4, Len(tag)) ELSE tag

\* ------------------------------------------------------------------------
\* Namespaces and the builtin type table
\* ------------------------------------------------------------------------
XS_NS == "http://www.w3.org/2001/XMLSchema"
XML_NS == "http://www.w3.org/XML/1998/namespace"
OCX_NS == "https://3docx.org/ocx"
OTHER_NS == "https://3docx.org/other"

BuiltinNames ==
    {"string", "ID", "IDREF", "boolean", "decimal", "float", "integer", "double",
     "duration", "dateTime", "gYearMonth", "gYear", "gMonthDay", "hexBinary",
     "base64Binary", "anyURI", "QName", "token", "NOTATION", "byte", "normalizedString"}

W3C_SCHEMA_BUILT_IN_TYPES == { unique_tag(<<n>>, XS_NS) : n \in BuiltinNames }

\* ------------------------------------------------------------------------
\* Parsed documents.  A document is its namespace map (a dict, kept in
\* insertion order), its targetNamespace and its nodes in document order;
\* node 1 is the xs:schema root and parent is the index of the parent node.
\* ------------------------------------------------------------------------
NoAttrs == [x \in {} |-> EmptyStr]
N(ln, parent, attrs, text) == [ln |-> ln, parent |-> parent, attrs |-> attrs, text |-> text]
Q(p, n) == <<p, ":", n>>
S(x) == <<x>>

\* OCX_Schema.xsd: the main schema
\*  1 <xs:schema xmlns:xs=XS xmlns:ocx=OCX targetNamespace=OCX>
\*  2   <xs:attribute name="schemaVersion" type="xs:string" fixed="2.8.6"/>
\*  3   <xs:attribute name="ShipName" type="xs:string">
\*  4     <xs:annotation>
\*  5       <xs:documentation>Name of the ship</xs:documentation>
\*  6   <xs:attributeGroup name="Header">
\*  7     <xs:attribute name="time_stamp" type="xs:dateTime" use="required"/>
\*  8   <xs:element name="Form" type="ocx:Form_T" abstract="true"/>
\*  9   <xs:element name="Vessel" type="ocx:Vessel_T" substitutionGroup="ocx:Form"/>
\* 10   <xs:element name="Panel" type="ocx:Form_T" substitutionGroup="ocx:Form">
\* 11     <xs:annotation>
\* 12       <xs:documentation>A panel</xs:documentation>
\* 13   <xs:element name="Plate" type="xs:string"/>
\* 14   <xs:complexType name="Vessel_T">
\* 15     <xs:complexContent>
\* 16       <xs:extension base="ocx:Form_T">
\* 17         <xs:sequence>
\* 18           <xs:element ref="ocx:Plate" minOccurs="0"/>
\* 19         <xs:attribute ref="ocx:ShipName" use="required" default="NN"/>
\* 20   <xs:complexType name="Form_T">
\* 21     <xs:complexContent>
\* 22       <xs:extension base="ocx:Entity_T">
\* 23         <xs:choice minOccurs="0" maxOccurs="unbounded">
\* 24           <xs:element ref="ocx:Form"/>
\* 25         <xs:attribute name="id" type="xs:ID"/>
\* 26         <xs:attributeGroup ref="ocx:Header"/>
\* 27   <xs:complexType name="Entity_T">
\* 28     <xs:sequence>
\* 29       <xs:element name="Description" type="xs:string" minOccurs="0"/>
\* 30     <xs:attribute name="GUIDRef" type="xs:string" use="required"/>
\* 31     <xs:assert test="@GUIDRef"/>
\* 32   <xs:element name="Hull">
\* 33     <xs:complexType>
\* 34       <xs:complexContent>
\* 35         <xs:extension base="ocx:Form_T">
\* 36           <xs:sequence>
\* 37             <xs:element ref="ocx:Form" maxOccurs="unbounded"/>
\* 38             <xs:element ref="ocx:Plate"/>
\* 39           <xs:attribute name="hullId" type="xs:string" fixed="H"/>
\* 40           <xs:attributeGroup ref="ocx:Header"/>
DocMain ==
    [nsmap |-> << <<S("xs"), XS_NS>>, <<S("ocx"), OCX_NS>>, <<S("o"), OCX_NS>> >>,
     target |-> OCX_NS,
     parsed |-> TRUE,
     nodes |-> <<
        N("schema", 0, NoAttrs, EmptyStr),
        N("attribute", 1, [name |-> S("schemaVersion"), type |-> Q("xs", "string"), fixed |-> S("2.8.6")], EmptyStr),
        N("attribute", 1, [name |-> S("ShipName"), type |-> Q("xs", "string")], EmptyStr),
        N("annotation", 3, NoAttrs, EmptyStr),
        N("documentation", 4, NoAttrs, S("Name of the ship")),
        N("attributeGroup", 1, [name |-> S("Header")], EmptyStr),
        N("attribute", 6, [name |-> S("time_stamp"), type |-> Q("xs", "dateTime"), use |-> S("required")], EmptyStr),
        N("element", 1, [name |-> S("Form"), type |-> Q("ocx", "Form_T"), abstract |-> S("true")], EmptyStr),
        N("element", 1, [name |-> S("Vessel"), type |-> Q("ocx", "Vessel_T"), substitutionGroup |-> Q("ocx", "Form")], EmptyStr),
        N("element", 1, [name |-> S("Panel"), type |-> Q("ocx", "Form_T"), substitutionGroup |-> Q("ocx", "Form")], EmptyStr),
        N("annotation", 10, NoAttrs, EmptyStr),
        N("documentation", 11, NoAttrs, S("A panel")),
        N("element", 1, [name |-> S("Plate"), type |-> Q("xs", "string")], EmptyStr),
        N("complexType", 1, [name |-> S("Vessel_T")], EmptyStr),
        N("complexContent", 14, NoAttrs, EmptyStr),
        N("extension", 15, [base |-> Q("ocx", "Form_T")], EmptyStr),
        N("sequence", 16, NoAttrs, EmptyStr),
        N("element", 17, [ref |-> Q("ocx", "Plate"), minOccurs |-> S("0")], EmptyStr),
        N("attribute", 16, [ref |-> Q("ocx", "ShipName"), use |-> S("required"), default |-> S("NN")], EmptyStr),
        N("complexType", 1, [name |-> S("Form_T")], EmptyStr),
        N("complexContent", 20, NoAttrs, EmptyStr),
        N("extension", 21, [base |-> Q("ocx", "Entity_T")], EmptyStr),
        N("choice", 22, [minOccurs |-> S("0"), maxOccurs |-> S("unbounded")], EmptyStr),
        N("element", 23, [ref |-> Q("ocx", "Form")], EmptyStr),
        N("attribute", 22, [name |-> S("id"), type |-> Q("xs", "ID")], EmptyStr),
        N("attributeGroup", 22, [ref |-> Q("ocx", "Header")], EmptyStr),
        N("complexType", 1, [name |-> S("Entity_T")], EmptyStr),
        N("sequence", 27, NoAttrs, EmptyStr),
        N("element", 28, [name |-> S("Description"), type |-> Q("xs", "string"), minOccurs |-> S("0")], EmptyStr),
        N("attribute", 27, [name |-> S("GUIDRef"), type |-> Q("xs", "string"), use |-> S("required")], EmptyStr),
        N("assert", 27, [test |-> S("@GUIDRef")], EmptyStr),
        N("element", 1, [name |-> S("Hull")], EmptyStr),
        N("complexType", 32, NoAttrs, EmptyStr),
        N("complexContent", 33, NoAttrs, EmptyStr),
        N("extension", 34, [base |-> Q("ocx", "Form_T")], EmptyStr),
        N("sequence", 35, NoAttrs, EmptyStr),
        N("element", 36, [ref |-> Q("ocx", "Form"), maxOccurs |-> S("unbounded")], EmptyStr),
        N("element", 36, [ref |-> Q("ocx", "Plate")], EmptyStr),
        N("attribute", 35, [name |-> S("hullId"), type |-> Q("xs", "string"), fixed |-> S("H")], EmptyStr),
        N("attributeGroup", 35, [ref |-> Q("ocx", "Header")], EmptyStr)
     >>]

\* OCX_Extra.xsd: a second file of the same target namespace; it binds the
\* prefix ocx to another URI and declares the target as default namespace
\*  1 <xs:schema xmlns:ocx=OTHER xmlns=OCX xmlns:xs=XS targetNamespace=OCX>
\*  2   <xs:element name="Vessel" type="Vessel2_T"/>
\*  3   <xs:complexType name="Plate">
\*  4     <xs:attribute name="thickness" type="xs:double"/>
\*  5   <xs:complexType name="Vessel2_T">
\*  6     <xs:choice minOccurs="0" maxOccurs="unbounded">
\*  7       <xs:sequence minOccurs="1" maxOccurs="2">
\*  8         <xs:element name="Tank" type="xs:string" minOccurs="0"/>
\*  9   <xs:attributeGroup name="Units">
\* 10     <xs:attribute name="unit">
\* 11       <xs:simpleType>
\* 12         <xs:restriction base="xs:string">
\* 13           <xs:enumeration value="m">
\* 14             <xs:annotation>
\* 15               <xs:documentation>metre</xs:documentation>
\* 16           <xs:enumeration value="mm"/>
\* 17           <xs:enumeration value="m">
\* 18             <xs:annotation>
\* 19               <xs:documentation>meter</xs:documentation>
DocExtra ==
    [nsmap |-> << <<S("ocx"), OTHER_NS>>, <<NoneVal, OCX_NS>>, <<S("xs"), XS_NS>> >>,
     target |-> OCX_NS,
     parsed |-> TRUE,
     nodes |-> <<
        N("schema", 0, NoAttrs, EmptyStr),
        N("element", 1, [name |-> S("Vessel"), type |-> S("Vessel2_T")], EmptyStr),
        N("complexType", 1, [name |-> S("Plate")], EmptyStr),
        N("attribute", 3, [name |-> S("thickness"), type |-> Q("xs", "double")], EmptyStr),
        N("complexType", 1, [name |-> S("Vessel2_T")], EmptyStr),
        N("choice", 5, [minOccurs |-> S("0"), maxOccurs |-> S("unbounded")], EmptyStr),
        N("sequence", 6, [minOccurs |-> S("1"), maxOccurs |-> S("2")], EmptyStr),
        N("element", 7, [name |-> S("Tank"), type |-> Q("xs", "string"), minOccurs |-> S("0")],
          EmptyStr),
        N("attributeGroup", 1, [name |-> S("Units")], EmptyStr),
        N("attribute", 9, [name |-> S("unit")], EmptyStr),
        N("simpleType", 10, NoAttrs, EmptyStr),
        N("restriction", 11, [base |-> Q("xs", "string")], EmptyStr),
        N("enumeration", 12, [value |-> S("m")], EmptyStr),
        N("annotation", 13, NoAttrs, EmptyStr),
        N("documentation", 14, NoAttrs, S("metre")),
        N("enumeration", 12, [value |-> S("mm")], EmptyStr),
        N("enumeration", 12, [value |-> S("m")], EmptyStr),
        N("annotation", 17, NoAttrs, EmptyStr),
        N("documentation", 18, NoAttrs, S("meter"))
     >>]

\* XMLSchema.xsd (extract): the schema for schemas declares the builtin types
\*  1 <xs:schema xmlns:xs=XS targetNamespace=XS>
\*  2   <xs:simpleType name="string">
\*  3     <xs:restriction base="xs:anySimpleType"/>
DocXs ==
    [nsmap |-> << <<S("xs"), XS_NS>> >>,
     target |-> XS_NS,
     parsed |-> TRUE,
     nodes |-> <<
        N("schema", 0, NoAttrs, EmptyStr),
        N("simpleType", 1, [name |-> S("string")], EmptyStr),
        N("restriction", 2, [base |-> Q("xs", "anySimpleType")], EmptyStr)
     >>]

\* Engine.xsd: references an attribute of a schema that is not ingested
\*  1 <xs:schema xmlns:xs=XS xmlns:ocx=OCX targetNamespace=OCX>
\*  2   <xs:element name="Engine">
\*  3     <xs:complexType>
\*  4       <xs:attribute ref="xml:lang"/>
DocEngine ==
    [nsmap |-> << <<S("xs"), XS_NS>>, <<S("ocx"), OCX_NS>> >>,
     target |-> OCX_NS,
     parsed |-> TRUE,
     nodes |-> <<
        N("schema", 0, NoAttrs, EmptyStr),
        N("element", 1, [name |-> S("Engine")], EmptyStr),
        N("complexType", 2, NoAttrs, EmptyStr),
        N("attribute", 3, [ref |-> Q("xml", "lang")], EmptyStr)
     >>]

\* Anchor.xsd: references an element through a prefix that is not declared
\*  1 <xs:schema xmlns:xs=XS xmlns:ocx=OCX targetNamespace=OCX>
\*  2   <xs:element name="Anchor">
\*  3     <xs:complexType>
\*  4       <xs:sequence>
\*  5         <xs:element ref="unitsml:Unit"/>
DocAnchor ==
    [nsmap |-> << <<S("xs"), XS_NS>>, <<S("ocx"), OCX_NS>> >>,
     target |-> OCX_NS,
     parsed |-> TRUE,
     nodes |-> <<
        N("schema", 0, NoAttrs, EmptyStr),
        N("element", 1, [name |-> S("Anchor")], EmptyStr),
        N("complexType", 2, NoAttrs, EmptyStr),
        N("sequence", 3, NoAttrs, EmptyStr),
        N("element", 4, [ref |-> Q("unitsml", "Unit")], EmptyStr)
     >>]

\* Winch.xsd: a schema of another target namespace that binds it to ocx
\*  1 <xs:schema xmlns:xs=XS xmlns:ocx=OTHER targetNamespace=OTHER>
\*  2   <xs:element name="Winch" type="ocx:Winch_T"/>
\*  3   <xs:attribute name="drum" type="xs:string">
\*  4     <xs:simpleType>
\*  5       <xs:restriction base="xs:token"/>
\*  6   <xs:attribute name="rope" type="xs:string"/>
\*  7   <xs:complexType name="Winch_T">
\*  8     <xs:attribute ref="ocx:rope"/>
\*  9     <xs:attribute ref="ocx:drum"/>
\* 10   <xs:attribute name="schemaVersion" fixed="0.1"/>
DocWinch ==
    [nsmap |-> << <<S("xs"), XS_NS>>, <<S("ocx"), OTHER_NS>> >>,
     target |-> OTHER_NS,
     parsed |-> TRUE,
     nodes |-> <<
        N("schema", 0, NoAttrs, EmptyStr),
        N("element", 1, [name |-> S("Winch"), type |-> Q("ocx", "Winch_T")], EmptyStr),
        N("attribute", 1, [name |-> S("drum"), type |-> Q("xs", "string")], EmptyStr),
        N("simpleType", 3, NoAttrs, EmptyStr),
        N("restriction", 4, [base |-> Q("xs", "token")], EmptyStr),
        N("attribute", 1, [name |-> S("rope"), type |-> Q("xs", "string")], EmptyStr),
        N("complexType", 1, [name |-> S("Winch_T")], EmptyStr),
        N("attribute", 7, [ref |-> Q("ocx", "rope")], EmptyStr),
        N("attribute", 7, [ref |-> Q("ocx", "drum")], EmptyStr),
        N("attribute", 1, [name |-> S("schemaVersion"), fixed |-> S("0.1")], EmptyStr)
     >>]

\* Broken.xsd: not well-formed, LxmlParser.parse returns False
DocBroken ==
    [nsmap |-> << >>,
     target |-> "",
     parsed |-> FALSE,
     nodes |-> << N("schema", 0, NoAttrs, EmptyStr) >>]

\* Rig.xsd: a type derived by restriction and an element that names itself
\* as its type
\*  1 <xs:schema xmlns:xs=XS xmlns:ocx=OCX targetNamespace=OCX>
\*  2   <xs:attribute name="schemaVersion" type="xs:string" fixed="3.0.0"/>
\*  3   <xs:element name="Crane" type="ocx:Crane_T"/>
\*  4   <xs:complexType name="Crane_T">
\*  5     <xs:complexContent>
\*  6       <xs:restriction base="ocx:Boom_T"/>
\*  7   <xs:complexType name="Boom_T">
\*  8     <xs:sequence>
\*  9       <xs:element name="Hook" type="xs:string"/>
\* 10   <xs:element name="Loop" type="ocx:Loop"/>
DocRig ==
    [nsmap |-> << <<S("xs"), XS_NS>>, <<S("ocx"), OCX_NS>> >>,
     target |-> OCX_NS,
     parsed |-> TRUE,
     nodes |-> <<
        N("schema", 0, NoAttrs, EmptyStr),
        N("attribute", 1, [name |-> S("schemaVersion"), type |-> Q("xs", "string"), fixed |-> S("3.0.0")], EmptyStr),
        N("element", 1, [name |-> S("Crane"), type |-> Q("ocx", "Crane_T")], EmptyStr),
        N("complexType", 1, [name |-> S("Crane_T")], EmptyStr),
        N("complexContent", 4, NoAttrs, EmptyStr),
        N("restriction", 5, [base |-> Q("ocx", "Boom_T")], EmptyStr),
        N("complexType", 1, [name |-> S("Boom_T")], EmptyStr),
        N("sequence", 7, NoAttrs, EmptyStr),
        N("element", 8, [name |-> S("Hook"), type |-> Q("xs", "string")], EmptyStr),
        N("element", 1, [name |-> S("Loop"), type |-> Q("ocx", "Loop")], EmptyStr)
     >>]

Docs == <<DocMain, DocExtra, DocXs, DocEngine, DocAnchor, DocWinch, DocBroken, DocRig>>
Files == 1..Len(Docs)

\* ------------------------------------------------------------------------
\* The state
\* ------------------------------------------------------------------------
VARIABLES
    files,                \* the schema files as lxml parses them: file -> tree
    schema_namespaces,    \* OcxParser._schema_namespaces: prefix -> URI, insertion order
    target_ns,            \* OcxParser._target_ns
    root,                 \* OcxParser._root: the file whose root was parsed last, 0 for None
    all_schema_elements,  \* OcxParser._all_schema_elements: tag -> node
    all_types,            \* OcxParser._all_types: kind -> list of tags
    schema_types,         \* OcxParser._schema_types
    schema_version,       \* OcxParser._schema_version
    schema_ns,            \* OcxParser._schema_ns: version -> target namespace
    substitution_groups,  \* OcxParser._substitution_groups: group -> list of member tags
    ocx_global_elements,  \* Transformer._ocx_global_elements: tag -> OcxGlobalElement
    schema_enumerators,   \* Transformer._schema_enumerators: name -> OcxEnumerator
    simple_types,         \* Transformer._simple_types
    global_attributes,    \* Transformer._global_attributes
    is_transformed,       \* Transformer._is_transformed
    raised,               \* the exception that ended the last call, "none" if it returned
    returned,             \* what the last call returned: "True", "False", or "None"
                          \* before the first call and when the call raised
    history,              \* the calls so far: the files passed to process_xsd_from_file
                          \* and a 0 for every run of _transform_objects; a -1 at the
                          \* end when the last call was a transform_schema_from_folder
                          \* that did not run it
    downloaded,           \* SchemaDownloader.downloaded: URI -> file path or None
    schema_folder,        \* the names of the files written to SchemaDownloader.schema_folder
    fetched,              \* the URIs that wget read, in the order of the reads
    wget_stack,           \* the calls of wget in progress, the innermost last
    printed,              \* what the except clause of wget printed last
    ocx_schema_namespaces, \* OcxSchema._schema_namespaces: prefix -> URI, insertion order
    is_parsed,            \* OcxSchema._is_parsed
    parse_stack,          \* the calls of OcxSchema._parse_schema in progress
    parsed                \* the locations whose look-up tables the running call of
                          \* _parse_schema, or the last one, has built, in that order

parserVars == <<schema_namespaces, target_ns, root, all_schema_elements, all_types,
                schema_types, schema_version, schema_ns, substitution_groups>>
transformerVars == <<ocx_global_elements, schema_enumerators, simple_types,
                     global_attributes, is_transformed>>
downloaderVars == <<downloaded, schema_folder, fetched, wget_stack, printed>>
schemaVars == <<ocx_schema_namespaces, is_parsed, parse_stack, parsed>>
vars == <<files, parserVars, transformerVars, raised, returned, history, downloaderVars,
          schemaVars>>

\* ------------------------------------------------------------------------
\* The trees of the files: the nodes of a document and, for every node, its
\* descendants in document order
\* ------------------------------------------------------------------------
RECURSIVE IsUnder(_, _, _)
\* node j of document d is a descendant of node i
IsUnder(d, j, i) ==
    LET p == Docs[d].nodes[j].parent
    IN p # 0 /\ (p = i \/ IsUnder(d, p, i))

RECURSIVE SortedSeq(_)
\* the elements of a set of integers in increasing order
SortedSeq(T) ==
    IF T = {} THEN << >>
    ELSE LET m == CHOOSE x \in T : \A y \in T : x <= y
         IN <<m>> \o SortedSeq(T \ {m})

\* the descendants of every node in document order
DescendantTable ==
    [d \in Files |->
        [i \in 1..Len(Docs[d].nodes) |->
            SortedSeq({ j \in 1..Len(Docs[d].nodes) : IsUnder(d, j, i) })]]

\* what LxmlParser.parse makes of the files
Trees ==
    [d \in Files |->
        [nsmap |-> Docs[d].nsmap, target |-> Docs[d].target, parsed |-> Docs[d].parsed,
         nodes |-> Docs[d].nodes, desc |-> DescendantTable[d]]]

\* ------------------------------------------------------------------------
\* LxmlElement: access to the parsed nodes.  A node is addressed by the
\* handle <<file, index>>.
\* ------------------------------------------------------------------------
Node(h) == files[h[1]].nodes[h[2]]
Attrs(h) == Node(h).attrs
HasAttr(h, a) == a \in DOMAIN Attrs(h)
\* element.get(a): the attribute value or None
Get(h, a) == IF HasAttr(h, a) THEN Attrs(h)[a] ELSE NoneVal

\* the descendants of h in document order (xpath .//*)
Descendants(h) == files[h[1]].desc[h[2]]

Handles(d, idx) == [k \in 1..Len(idx) |-> <<d, idx[k]>>]

\* element.findall(".//{*}child_name")
find_all_children_with_name(h, child_name) ==
    Handles(h[1], SelectSeq(Descendants(h), LAMBDA j : Node(<<h[1], j>>).ln = child_name))

\* element.findall(".//{*}child_name[@attrib_name]")
find_all_children_with_name_and_attribute(h, child_name, attrib_name) ==
    SelectSeq(find_all_children_with_name(h, child_name), LAMBDA c : HasAttr(c, attrib_name))

\* element.findall('.//{*}name[@attrib_name="attrib_value"]')
find_all_children_with_attribute_value(h, name, attrib_name, attrib_value) ==
    SelectSeq(find_all_children_with_name(h, name),
              LAMBDA c : HasAttr(c, attrib_name) /\ Attrs(c)[attrib_name] = attrib_value)

find_attributes(h) == find_all_children_with_name(h, "attribute")
find_attribute_groups(h) == find_all_children_with_name(h, "attributeGroup")
has_child_with_name(h, child_name) == Len(find_all_children_with_name(h, child_name)) > 0

\* element.iter("{*}tag"): the element itself and its descendants, document order
iter(h, tag) ==
    (IF Node(h).ln = tag THEN <<h>> ELSE << >>) \o find_all_children_with_name(h, tag)

get_localname(h) == Node(h).ln

\* the name attribute, else the ref attribute without its prefix; for a
\* missing element (None) the attribute access raises AttributeError
get_name_raises(h) == h = NoneH \/ (~HasAttr(h, "name") /\ ~HasAttr(h, "ref"))
get_name(h) ==
    IF HasAttr(h, "name") THEN Attrs(h)["name"]
    ELSE strip_namespace_prefix(Attrs(h)["ref"])

get_use(h) ==
    IF ~HasAttr(h, "use") THEN S("opt.")
    ELSE IF Attrs(h)["use"] = S("required") THEN S("req.")
    ELSE Attrs(h)["use"]

get_reference(h) == Get(h, "ref")
is_enumeration(h) == has_child_with_name(h, "enumeration")
is_substitution_group(h) == HasAttr(h, "substitutionGroup")
get_substitution_group(h) == Get(h, "substitutionGroup")

\* the first text chunk of the element and its descendants (special
\* characters are not part of the modelled texts)
get_element_text(h) ==
    LET First(texts) == IF Len(texts) = 0 THEN EmptyStr ELSE Node(<<h[1], texts[1]>>).text
    IN First(SelectSeq(<<h[2]>> \o Descendants(h),
                       LAMBDA j : Node(<<h[1], j>>).text # EmptyStr))

\* the base of the last xs:restriction of the element, "" when there is none
get_restriction(h) ==
    LET Last(r) == IF Len(r) = 0 THEN EmptyStr ELSE Get(r[Len(r)], "base")
    IN Last(iter(h, "restriction"))

\* the test of the first xs:assert under the element, None when there is none
find_assertion(h) ==
    LET First(asserts) ==
            IF Len(asserts) > 0 /\ HasAttr(asserts[1], "test") THEN Attrs(asserts[1])["test"]
            ELSE NoneVal
    IN First(find_all_children_with_name(h, "assert"))

\* int(s) and str(n) for the occurrence bounds that appear in the documents
IntOf(s) == CASE s = S("0") -> 0 [] s = S("1") -> 1 [] s = S("2") -> 2 [] OTHER -> 3
StrOf(n) == CASE n = 0 -> S("0") [] n = 1 -> S("1") [] n = 2 -> S("2") [] OTHER -> S("3")

\* the xs:sequence or xs:choice ancestor farthest from the node, 0 when there
\* is none
OutermostWrapper(d, j) ==
    LET W == { i \in 1..Len(files[d].nodes) :
                 IsUnder(d, j, i) /\ files[d].nodes[i].ln \in {"sequence", "choice"} }
    IN IF W = {} THEN 0 ELSE CHOOSE w \in W : \A v \in W : w <= v

\* the nearest xs:sequence or xs:choice ancestor, 0 when there is none
RECURSIVE NearestWrapper(_, _)
NearestWrapper(d, j) ==
    LET Up(p) == IF p = 0 THEN 0
                 ELSE IF Node(<<d, p>>).ln \in {"sequence", "choice"} THEN p
                 ELSE NearestWrapper(d, p)
    IN Up(Node(<<d, j>>).parent)

\* the upper bound is the maxOccurs string or the integer 1
UpperInt(i) == [k |-> "int", i |-> i, s |-> EmptyStr]
UpperStr(s) == [k |-> "str", i |-> 0, s |-> s]

\* bounds that take an element without minOccurs for an optional one
cardinality_optional_default(h) ==
    LET lower0 == IF HasAttr(h, "minOccurs") THEN IntOf(Attrs(h)["minOccurs"]) ELSE 0
        upper0 == IF HasAttr(h, "maxOccurs") THEN UpperStr(Attrs(h)["maxOccurs"]) ELSE UpperInt(1)
        Wrapped(w, wh) ==
            [lower |-> IF w # 0 /\ HasAttr(wh, "minOccurs") THEN IntOf(Attrs(wh)["minOccurs"])
                       ELSE lower0,
             upper |-> IF w # 0 /\ HasAttr(wh, "maxOccurs") THEN UpperStr(Attrs(wh)["maxOccurs"])
                       ELSE upper0]
        At(w) == Wrapped(w, <<h[1], w>>)
    IN At(NearestWrapper(h[1], h[2]))

cardinality(h) ==
    LET lower0 == IF HasAttr(h, "minOccurs") THEN IntOf(Attrs(h)["minOccurs"])
                  ELSE IF HasAttr(h, "use")
                       THEN (IF Attrs(h)["use"] \in {S("req"), S("required")} THEN 1 ELSE 0)
                       ELSE 1
        upper0 == IF HasAttr(h, "maxOccurs") THEN UpperStr(Attrs(h)["maxOccurs"]) ELSE UpperInt(1)
        Wrapped(w, wh) ==
            [lower |-> IF w # 0 /\ HasAttr(wh, "minOccurs") THEN IntOf(Attrs(wh)["minOccurs"])
                       ELSE lower0,
             upper |-> IF w # 0 /\ HasAttr(wh, "maxOccurs") THEN UpperStr(Attrs(wh)["maxOccurs"])
                       ELSE upper0]
        At(w) == Wrapped(w, <<h[1], w>>)
    IN At(NearestWrapper(h[1], h[2]))

cardinality_string(h) ==
    LET Up(c) == IF c.upper.k = "str"
                 THEN (IF c.upper.s = S("unbounded") THEN S("\\u221E") ELSE c.upper.s)
                 ELSE StrOf(c.upper.i)
        Format(c) == <<"[">> \o StrOf(c.lower) \o <<", ">> \o Up(c) \o <<"]">>
    IN Format(cardinality(h))

is_choice(h) ==
    LET Choice(w) == w # 0 /\ Node(<<h[1], w>>).ln = "choice"
    IN Choice(NearestWrapper(h[1], h[2]))

\* ------------------------------------------------------------------------
\* SchemaHelper
\* ------------------------------------------------------------------------
\* every source that applies overwrites the value of the sources before it
get_type(h) ==
    LET Base(nodes, before) == IF Len(nodes) > 0 THEN Attrs(nodes[1])["base"] ELSE before
        Marked(marker, nodes, attrib, before) ==
            IF Len(nodes) > 0 THEN <<marker>> \o Fmt(Get(nodes[Len(nodes)], attrib))
            ELSE before
        Content(node, before) ==
            Base(find_all_children_with_name_and_attribute(node, "restriction", "base"),
                 Base(find_all_children_with_name_and_attribute(node, "extension", "base"),
                      before))
        Complex(before) ==
            IF Len(find_all_children_with_name(h, "complexContent")) > 0
            THEN Content(h, before)
            ELSE before
        Simple(st, before) == IF Len(st) > 0 THEN Content(st[1], before) ELSE before
    IN Marked("Restriction of type ", iter(h, "restriction"), "base",
          Marked("List of type ", iter(h, "list"), "itemType",
             Simple(find_all_children_with_name(h, "simpleType"),
                Complex(IF HasAttr(h, "ref") THEN Attrs(h)["ref"]
                        ELSE IF HasAttr(h, "base") THEN Attrs(h)["base"]
                        ELSE IF HasAttr(h, "type") THEN Attrs(h)["type"]
                        ELSE NoneVal))))

\* the fixed value of the first attribute named schemaVersion, else "Missing"
get_schema_version(d) ==
    LET First(element) == IF Len(element) > 0 THEN Get(element[1], "fixed") ELSE S("Missing")
    IN First(find_all_children_with_attribute_value(<<d, 1>>, "attribute", "name",
                                                    S("schemaVersion")))

\* ------------------------------------------------------------------------
\* Python dicts and lists
\* ------------------------------------------------------------------------
\* dict[k] = v on a dict without insertion order of interest
Put(f, k, v) == [x \in (DOMAIN f) \cup {k} |-> IF x = k THEN v ELSE f[x]]
EmptyDict == [x \in {} |-> NoneH]

\* dicts whose insertion order matters are sequences of <<key, value>> pairs
HasKey(d, k) == \E i \in 1..Len(d) : d[i][1] = k
Lookup(d, k) == d[CHOOSE i \in 1..Len(d) : d[i][1] = k][2]
Keys(d) == [i \in 1..Len(d) |-> d[i][1]]
Values(d) == { d[i][2] : i \in 1..Len(d) }
\* d[k] = v keeps the position of an existing key
PutOrdered(d, k, v) ==
    IF HasKey(d, k) THEN [i \in 1..Len(d) |-> IF d[i][1] = k THEN <<k, v>> ELSE d[i]]
    ELSE Append(d, <<k, v>>)

\* for x in s: acc = Op(acc, x)
FoldSeq(Op(_, _), acc, s) ==
    LET after[i \in 0..Len(s)] == IF i = 0 THEN acc ELSE Op(after[i - 1], s[i])
    IN after[Len(s)]

\* x = a, then the statements F that use x
Bind(a, F(_)) == F(a)

\* sorted(): Python orders strings by code point.  StringOrder lists the
\* namespaces and names that occur in tags in that order.
StringOrder ==
    <<XS_NS, XML_NS, OCX_NS, OTHER_NS,
      "Anchor", "Boom_T", "Crane", "Crane_T", "Description", "Engine", "Entity_T", "Form",
      "Form_T", "Header", "Hook", "Hull", "Loop",
      "Panel", "Plate", "ShipName", "Tank", "Units", "Vessel", "Vessel2_T", "Vessel_T", "Winch",
      "Winch_T", "drum", "rope", "schemaVersion", "string", "thickness", "time_stamp", "{", "}">>
Rank(tok) ==
    IF \E i \in 1..Len(StringOrder) : StringOrder[i] = tok
    THEN CHOOSE i \in 1..Len(StringOrder) : StringOrder[i] = tok
    ELSE 0

RECURSIVE StrLeq(_, _)
StrLeq(a, b) ==
    LET Compare(ra, rb) == IF ra # rb THEN ra < rb ELSE StrLeq(Tail(a), Tail(b))
    IN IF a = << >> THEN TRUE
       ELSE IF b = << >> THEN FALSE
       ELSE Compare(Rank(Head(a)), Rank(Head(b)))

RECURSIVE InsertSorted(_, _)
InsertSorted(s, x) ==
    IF s = << >> THEN <<x>>
    ELSE IF StrLeq(Head(s), x) THEN <<Head(s)>> \o InsertSorted(Tail(s), x)
    ELSE <<x>> \o s
sorted(s) == FoldSeq(InsertSorted, << >>, s)

\* ------------------------------------------------------------------------
\* OcxParser
\* ------------------------------------------------------------------------
Kinds == {"element", "complexType", "simpleType", "attributeGroup", "attribute", "enumeration"}

\* the fields of the OcxParser instance as one value
Parser ==
    [schema_namespaces |-> schema_namespaces, target_ns |-> target_ns, root |-> root,
     all_schema_elements |-> all_schema_elements, all_types |-> all_types,
     schema_types |-> schema_types, schema_version |-> schema_version,
     schema_ns |-> schema_ns, substitution_groups |-> substitution_groups]

InitParser ==
    [schema_namespaces |-> << <<S("xml"), XML_NS>> >>, target_ns |-> "", root |-> 0,
     all_schema_elements |-> EmptyDict, all_types |-> [k \in Kinds |-> << >>],
     schema_types |-> << >>, schema_version |-> NoneVal,
     schema_ns |-> EmptyDict, substitution_groups |-> EmptyDict]

\* a merge that keeps the incoming binding of a registered prefix
add_namespace_incoming_wins(reg, namespace) ==
    [i \in 1..Len(reg) |->
        IF HasKey(namespace, reg[i][1]) THEN <<reg[i][1], Lookup(namespace, reg[i][1])>>
        ELSE reg[i]]
    \o SelectSeq(namespace, LAMBDA b : ~HasKey(reg, b[1]))

\* the incoming bindings of registered prefixes are deleted, the rest is merged
add_namespace(reg, namespace) ==
    reg \o SelectSeq(namespace, LAMBDA b : ~HasKey(reg, b[1]))

\* the first prefix bound to the namespace; "" when the namespace is not
\* registered; None when that first prefix is the default namespace
get_prefix_from_namespace(P, namespace) ==
    LET reg == P.schema_namespaces
    IN IF \E i \in 1..Len(reg) : reg[i][2] = namespace
       THEN reg[CHOOSE i \in 1..Len(reg) :
                  reg[i][2] = namespace /\ \A j \in 1..(i - 1) : reg[j][2] # namespace][1]
       ELSE EmptyStr

add_schema_element(P, tag, element) ==
    [P EXCEPT !.all_schema_elements = Put(@, tag, element)]

add_schema_type(P, schema_type, tag) ==
    [P EXCEPT !.all_types[schema_type] = Append(@, tag)]

add_member_to_substitution_group(P, group, tag) ==
    [P EXCEPT !.substitution_groups =
        Put(@, group, (IF group \in DOMAIN @ THEN @[group] ELSE << >>) \o <<tag>>)]

add_element_to_lookup_table(P, element, tns) ==
    LET schema_type == get_localname(element)
        Member(P2, tag) ==
            IF is_substitution_group(element)
            THEN add_member_to_substitution_group(P2, get_substitution_group(element), tag)
            ELSE P2
        Typed(P1, tag) ==
            Member(IF is_enumeration(element) /\ schema_type \in {"attribute", "attributeGroup"}
                   THEN add_schema_type(P1, "enumeration", tag)
                   ELSE add_schema_type(P1, schema_type, tag),
                   tag)
        Tagged(tag) == Typed(add_schema_element(P, tag, element), tag)
    IN Tagged(unique_tag(get_name(element), tns))

\* the names of the referenced attributes of a file (a Python set)
RefAttributeNames(d) ==
    LET Names(glob_attr) == { get_name(glob_attr[i]) : i \in 1..Len(glob_attr) }
    IN Names(find_all_children_with_name_and_attribute(<<d, 1>>, "attribute", "ref"))

\* the orders in which a set can be iterated
Orders(T) == { s \in [1..Cardinality(T) -> T] : \A x \in T : \E i \in DOMAIN s : s[i] = x }

\* names is the iteration order of the set of referenced attribute names
create_lookup_tables(P, names) ==
    LET rt == <<P.root, 1>>
        AddAll(Q0, type) ==
            FoldSeq(LAMBDA acc, e : add_element_to_lookup_table(acc, e, acc.target_ns),
                    [Q0 EXCEPT !.schema_types = Append(@, type)],
                    find_all_children_with_name_and_attribute(rt, type, "name"))
        Single(acc, element) ==
            IF Len(element) = 1
            THEN add_element_to_lookup_table(acc, element[1], acc.target_ns)
            ELSE acc
        AddAttr(acc, name) ==
            Single(acc, find_all_children_with_attribute_value(rt, "attribute", "name", name))
        Elements(kinds, Q0) == FoldSeq(LAMBDA acc, type : AddAll(acc, type), Q0, kinds)
    IN FoldSeq(AddAttr,
               Elements(<<"element", "complexType", "simpleType", "attributeGroup">>, P),
               names)

\* a parse that takes the root of every parsed document, whatever its target
\* namespace
parse_xsd_from_file_unchecked(P, d) ==
    IF files[d].parsed
    THEN [result |-> TRUE,
          P |-> [P EXCEPT !.schema_namespaces = add_namespace(@, files[d].nsmap),
                          !.target_ns = files[d].target, !.root = d]]
    ELSE [result |-> FALSE, P |-> P]

\* a parse that keeps the first schema version it has taken
parse_xsd_from_file_first_version_wins(P, d) ==
    LET Rooted(P1, tns, version) ==
            IF tns \notin Values(P1.schema_namespaces)
            THEN [result |-> FALSE, P |-> P1]
            ELSE [result |-> TRUE,
                  P |-> IF version # S("Missing") /\ P1.schema_version = NoneVal
                        THEN [P1 EXCEPT !.target_ns = tns, !.root = d,
                                        !.schema_version = version,
                                        !.schema_ns = Put(@, version, tns)]
                        ELSE [P1 EXCEPT !.target_ns = tns, !.root = d]]
    IN IF files[d].parsed
       THEN Rooted([P EXCEPT !.schema_namespaces = add_namespace(@, files[d].nsmap)],
                   files[d].target, get_schema_version(d))
       ELSE [result |-> FALSE, P |-> P]

\* result is the value returned, P the parser after the call
parse_xsd_from_file(P, d) ==
    LET Rooted(P1, tns, version) ==
            IF tns \notin Values(P1.schema_namespaces)
            THEN [result |-> FALSE, P |-> P1]
            ELSE [result |-> TRUE,
                  P |-> IF version # S("Missing")
                        THEN [P1 EXCEPT !.target_ns = tns, !.root = d,
                                        !.schema_version = version,
                                        !.schema_ns = Put(@, version, tns)]
                        ELSE [P1 EXCEPT !.target_ns = tns, !.root = d]]
    IN IF files[d].parsed
       THEN Rooted([P EXCEPT !.schema_namespaces = add_namespace(@, files[d].nsmap)],
                   files[d].target, get_schema_version(d))
       ELSE [result |-> FALSE, P |-> P]

process_xsd_from_file(P, d, names) ==
    LET Tables(r) ==
            IF r.result
            THEN [result |-> TRUE, P |-> create_lookup_tables(r.P, names)]
            ELSE [result |-> FALSE, P |-> r.P]
    IN Tables(parse_xsd_from_file(P, d))

\* the tags of a kind in the order of their registration
get_schema_types_unsorted(P, schema_type) == P.all_types[schema_type]

get_schema_types(P, schema_type) == sorted(P.all_types[schema_type])

\* a lookup that does not consult the builtin type table
get_element_from_tag_index_only(P, tag) ==
    IF tag \notin DOMAIN P.all_schema_elements THEN NoneH
    ELSE P.all_schema_elements[tag]

get_element_from_tag(P, tag) ==
    IF tag \in W3C_SCHEMA_BUILT_IN_TYPES THEN NoneH
    ELSE IF tag \notin DOMAIN P.all_schema_elements THEN NoneH
    ELSE P.all_schema_elements[tag]

\* a lookup that returns the tag and the node of the index for a builtin tag
get_element_from_type_index_only(P, schema_type) ==
    LET name == strip_namespace_prefix(schema_type)
        Tagged(tag) ==
            IF tag \in DOMAIN P.all_schema_elements
            THEN <<tag, P.all_schema_elements[tag]>>
            ELSE <<NoneVal, NoneH>>
        Bound(prefix) ==
            IF ~HasKey(P.schema_namespaces, prefix) THEN <<NoneVal, NoneH>>
            ELSE Tagged(unique_tag(name, Lookup(P.schema_namespaces, prefix)))
    IN Bound(namespace_prefix(schema_type))

\* <<tag, element>>, <<None, None>> on a miss
get_element_from_type(P, schema_type) ==
    LET name == strip_namespace_prefix(schema_type)
        Tagged(tag) ==
            IF tag \in W3C_SCHEMA_BUILT_IN_TYPES THEN <<NoneVal, NoneH>>
            ELSE IF tag \in DOMAIN P.all_schema_elements
                 THEN <<tag, get_element_from_tag(P, tag)>>
                 ELSE <<NoneVal, NoneH>>
        Bound(prefix) ==
            IF ~HasKey(P.schema_namespaces, prefix) THEN <<NoneVal, NoneH>>
            ELSE Tagged(unique_tag(name, Lookup(P.schema_namespaces, prefix)))
    IN Bound(namespace_prefix(schema_type))

\* ------------------------------------------------------------------------
\* OcxGlobalElement
\* ------------------------------------------------------------------------
\* err names the exception that interrupted the resolution of the element
OcxGlobalElement(P, xsd_element, tag) ==
    [element |-> xsd_element, tag |-> tag, namespace |-> QNameNamespace(tag),
     cardinality |-> cardinality(xsd_element), attributes |-> << >>, children |-> << >>,
     parents |-> << >>, assertions |-> << >>, namespaces |-> P.schema_namespaces,
     err |-> "none"]

\* a parents map that lists a new parent before the ones it holds
put_parent_front(ocx, tag, parent) ==
    [ocx EXCEPT !.parents = IF HasKey(@, tag) THEN PutOrdered(@, tag, parent)
                            ELSE <<<<tag, parent>>>> \o @]

put_parent(ocx, tag, parent) == [ocx EXCEPT !.parents = PutOrdered(@, tag, parent)]
get_parents(ocx) == ocx.parents
add_assertion(ocx, test) == [ocx EXCEPT !.assertions = Append(@, test)]
add_attribute(ocx, attribute) == [ocx EXCEPT !.attributes = Append(@, attribute)]
add_child(ocx, child) == [ocx EXCEPT !.children = Append(@, child)]

\* ------------------------------------------------------------------------
\* Transformer
\* ------------------------------------------------------------------------
\* a walk that records the nearest parent only
find_parents_nearest_only(P, child_tag, ocx, depth) ==
    Bind(get_element_from_tag(P, child_tag), LAMBDA e :
    IF e = NoneH \/ get_type(e) = NoneVal THEN ocx
    ELSE Bind(get_element_from_type(P, get_type(e)), LAMBDA r :
         IF r[1] # NoneVal THEN put_parent(ocx, r[1], r[2]) ELSE ocx))

RECURSIVE find_parents(_, _, _, _)
\* depth counts the nested calls; a walk that does not end exhausts the stack
find_parents(P, child_tag, ocx, depth) ==
    LET WithAssertion(ocx1, assertion) ==
            IF assertion # NoneVal THEN add_assertion(ocx1, assertion) ELSE ocx1
    IN IF depth > MaxDepth THEN [ocx EXCEPT !.err = "RecursionError:_find_parents"]
       ELSE Bind(get_element_from_tag(P, child_tag), LAMBDA e :
            IF e = NoneH THEN ocx
            ELSE Bind(get_type(e), LAMBDA schema_type :
                 IF schema_type = NoneVal THEN ocx
                 ELSE Bind(get_element_from_type(P, schema_type), LAMBDA r :
                      IF r[1] # NoneVal
                      THEN find_parents(P, r[1],
                                        WithAssertion(put_parent(ocx, r[1], r[2]),
                                                      find_assertion(r[2])),
                                        depth + 1)
                      ELSE ocx)))

find_all_my_parents(P, ocx) == find_parents(P, ocx.tag, ocx, 1)

\* the OcxSchemaAttribute of the use-site before a reference is resolved
UseSiteAttribute(P, xs_attribute, tns) ==
    [name |-> get_name(xs_attribute),
     prefix |-> get_prefix_from_namespace(P, tns),
     type |-> get_type(xs_attribute),
     fixed |-> Get(xs_attribute, "fixed"),
     use |-> get_use(xs_attribute),
     default |-> Get(xs_attribute, "default"),
     description |-> get_element_text(xs_attribute)]

\* a record of a reference that keeps the type and the text of the use-site
process_attribute_use_site_only(P, xs_attribute, tns) ==
    IF get_name_raises(xs_attribute) THEN [raises |-> TRUE, rec |-> << >>]
    ELSE Bind(UseSiteAttribute(P, xs_attribute, tns), LAMBDA attribute :
         IF get_reference(xs_attribute) # NoneVal
         THEN Bind(get_element_from_type(P, get_reference(xs_attribute))[2], LAMBDA a :
              IF get_name_raises(a) THEN [raises |-> TRUE, rec |-> << >>]
              ELSE [raises |-> FALSE, rec |-> [attribute EXCEPT !.name = get_name(a)]])
         ELSE IF attribute.type = NoneVal
         THEN [raises |-> FALSE,
               rec |-> [attribute EXCEPT
                          !.type = Fmt(get_prefix_from_namespace(P, XS_NS))
                                   \o <<":", "attribute">>]]
         ELSE [raises |-> FALSE, rec |-> attribute])

\* rec is the OcxSchemaAttribute, raises tells that the call raised instead
process_attribute(P, xs_attribute, tns) ==
    IF get_name_raises(xs_attribute) THEN [raises |-> TRUE, rec |-> << >>]
    ELSE Bind(UseSiteAttribute(P, xs_attribute, tns), LAMBDA attribute :
         IF get_reference(xs_attribute) # NoneVal
         THEN Bind(get_element_from_type(P, get_reference(xs_attribute))[2], LAMBDA a :
              IF get_name_raises(a) THEN [raises |-> TRUE, rec |-> << >>]
              ELSE [raises |-> FALSE,
                    rec |-> [attribute EXCEPT
                               !.name = get_name(a),
                               !.description = IF @ = EmptyStr THEN get_element_text(a)
                                               ELSE @,
                               !.type = get_type(a)]])
         ELSE IF attribute.type = NoneVal
         THEN [raises |-> FALSE,
               rec |-> [attribute EXCEPT
                          !.type = Fmt(get_prefix_from_namespace(P, XS_NS))
                                   \o <<":", "attribute">>]]
         ELSE [raises |-> FALSE, rec |-> attribute])

\* rec is the OcxSchemaChild, raises tells that the call raised instead
process_child(P, xs_element, prefix) ==
    LET Use(c) == IF c.lower = 0 THEN S("opt.") ELSE S("req.")
    IN IF get_name_raises(xs_element) THEN [raises |-> TRUE, rec |-> << >>]
       ELSE Bind([name |-> get_name(xs_element),
                  prefix |-> prefix,
                  type |-> get_type(xs_element),
                  use |-> Use(cardinality(xs_element)),
                  description |-> get_element_text(xs_element),
                  cardinality |-> cardinality_string(xs_element),
                  is_choice |-> is_choice(xs_element)], LAMBDA child :
            IF get_reference(xs_element) # NoneVal
            THEN Bind(get_element_from_type(P, get_reference(xs_element))[2], LAMBDA a :
                 IF get_name_raises(a) THEN [raises |-> TRUE, rec |-> << >>]
                 ELSE [raises |-> FALSE,
                       rec |-> [child EXCEPT
                                  !.name = get_name(a),
                                  !.description = IF @ = EmptyStr THEN get_element_text(a)
                                                  ELSE @,
                                  !.type = get_type(a)]])
            ELSE [raises |-> FALSE, rec |-> child])

\* for a in attributes: ocx.add_attribute(self._process_attribute(a, ns))
AddAttributes(P, ocx, attributes) ==
    FoldSeq(LAMBDA acc, a :
                IF acc.err # "none" THEN acc
                ELSE Bind(process_attribute(P, a, acc.namespace), LAMBDA r :
                     IF r.raises THEN [acc EXCEPT !.err = "AttributeError:_process_attribute"]
                     ELSE add_attribute(acc, r.rec)),
            ocx, attributes)

\* the attributes of the attribute groups referenced under a node
AddGroupAttributes(P, ocx, node) ==
    FoldSeq(LAMBDA acc, group :
                IF get_reference(group) = NoneVal THEN acc
                ELSE Bind(get_element_from_type(P, get_reference(group))[2], LAMBDA at_group :
                     IF at_group # NoneH THEN AddAttributes(P, acc, find_attributes(at_group))
                     ELSE acc),
            ocx, find_attribute_groups(node))

\* the nodes whose attributes are collected: the own node, then the parents
\* in the order of the parents map
AttributeNodes(ocx) ==
    <<ocx.element>> \o [i \in 1..Len(get_parents(ocx)) |-> get_parents(ocx)[i][2]]

\* the attribute groups of the own node before the attributes of the parents
process_attributes_own_groups_first(P, ocx) ==
    FoldSeq(LAMBDA acc, n :
                AddGroupAttributes(P, AddAttributes(P, acc, find_attributes(n)), n),
            ocx, AttributeNodes(ocx))

\* the attributes of every node, then the attribute groups of every node
process_attributes(P, ocx) ==
    FoldSeq(LAMBDA acc, n : AddGroupAttributes(P, acc, n),
            FoldSeq(LAMBDA acc, n : AddAttributes(P, acc, find_attributes(n)),
                    ocx, AttributeNodes(ocx)),
            AttributeNodes(ocx))

\* the records of the members of the substitution group, with the
\* cardinality and choice flag of the use-site record child
AddSubstitutions(P, ocx, members, child, prefix) ==
    FoldSeq(LAMBDA acc, tag :
                IF acc.err # "none" THEN acc
                ELSE Bind(get_element_from_tag(P, tag), LAMBDA element :
                     Bind(process_child(P, element, prefix), LAMBDA r :
                     IF r.raises THEN [acc EXCEPT !.err = "AttributeError:_process_child"]
                     ELSE add_child(acc,
                             [r.rec EXCEPT !.name = get_name(element),
                                           !.type = get_type(element),
                                           !.description = get_element_text(element),
                                           !.cardinality = child.cardinality,
                                           !.is_choice = child.is_choice]))),
            ocx, members)

\* the record of the use-site e before the substitution groups are looked at
UseSiteChild(P, e, prefix) ==
    Bind(process_child(P, e, prefix), LAMBDA r :
         IF r.raises THEN r
         ELSE [raises |-> FALSE,
               rec |-> [r.rec EXCEPT !.cardinality = cardinality_string(e),
                                     !.is_choice = is_choice(e)]])

\* the loop over the xs:element nodes of the element's own node: the else
\* belongs to the for loop over the members, so the use-site record is added
\* after the members of a group and no record is added for another name
OwnChildStep(P, substitutions, acc, e) ==
    IF acc.err # "none" THEN acc
    ELSE Bind(get_prefix_from_namespace(P, acc.namespace), LAMBDA prefix :
         Bind(UseSiteChild(P, e, prefix), LAMBDA r :
         IF r.raises THEN [acc EXCEPT !.err = "AttributeError:_process_child"]
         ELSE Bind(Fmt(prefix) \o <<":">> \o Fmt(get_name(e)), LAMBDA name :
              IF name \in DOMAIN substitutions
              THEN Bind(AddSubstitutions(P, acc, substitutions[name], r.rec, prefix),
                        LAMBDA m : IF m.err # "none" THEN m ELSE add_child(m, r.rec))
              ELSE acc)))

\* the loop over the xs:element nodes of one parent
ParentChildStep(P, substitutions, acc, e) ==
    IF acc.err # "none" THEN acc
    ELSE Bind(get_prefix_from_namespace(P, acc.namespace), LAMBDA prefix :
         Bind(UseSiteChild(P, e, prefix), LAMBDA r :
         IF r.raises THEN [acc EXCEPT !.err = "AttributeError:_process_child"]
         ELSE Bind(Fmt(prefix) \o <<":">> \o Fmt(get_name(e)), LAMBDA name :
              IF name \in DOMAIN substitutions
              THEN AddSubstitutions(P, acc, substitutions[name], r.rec, prefix)
              ELSE add_child(acc, r.rec))))

\* the parents whose xs:element nodes are scanned: the loop over the parents
\* returns at the end of its first iteration
ParentsScanned(parents) == SubSeq(parents, 1, Min(1, Len(parents)))

process_children(P, ocx, substitutions) ==
    FoldSeq(LAMBDA acc, t :
                FoldSeq(LAMBDA acc2, e : ParentChildStep(P, substitutions, acc2, e), acc,
                        find_all_children_with_name(t[2], "element")),
            FoldSeq(LAMBDA acc, e : OwnChildStep(P, substitutions, acc, e), ocx,
                    find_all_children_with_name(ocx.element, "element")),
            ParentsScanned(get_parents(ocx)))

\* the fields of the Transformer instance that _transform_objects writes
TransformerState ==
    [ocx_global_elements |-> ocx_global_elements, schema_enumerators |-> schema_enumerators,
     simple_types |-> simple_types, global_attributes |-> global_attributes,
     raised |-> "none"]

\* one iteration of the loop over the global elements
TransformElement(P, T, tag) ==
    IF T.raised # "none" THEN T
    ELSE Bind(get_element_from_tag(P, tag), LAMBDA e :
         IF e = NoneH THEN [T EXCEPT !.raised = "AttributeError:OcxGlobalElement"]
         ELSE Bind(find_all_my_parents(P, OcxGlobalElement(P, e, tag)), LAMBDA ocx1 :
              Bind(IF ocx1.err # "none" THEN ocx1 ELSE process_attributes(P, ocx1),
                   LAMBDA ocx2 :
              Bind(IF ocx2.err # "none" THEN ocx2
                   ELSE process_children(P, ocx2, P.substitution_groups),
                   LAMBDA ocx3 :
              [T EXCEPT !.ocx_global_elements = Put(@, tag, ocx3), !.raised = ocx3.err]))))

\* an enumerator that keeps one entry for every value, the first one
TransformEnumeration_one_entry_per_value(P, T, tag) ==
    LET Firsts(en) ==
            SelectSeq([i \in 1..Len(en) |-> <<i, en[i]>>],
                      LAMBDA x : \A j \in 1..(x[1] - 1) :
                                     Get(en[j], "value") # Get(x[2], "value"))
        Enum(e, enumerations) ==
            [name |-> get_name(e),
             prefix |-> get_prefix_from_namespace(P, QNameNamespace(tag)),
             tag |-> tag,
             values |-> [i \in 1..Len(enumerations) |-> Get(enumerations[i][2], "value")],
             descriptions |-> [i \in 1..Len(enumerations) |->
                                   get_element_text(enumerations[i][2])]]
        Stored(enum) == [T EXCEPT !.schema_enumerators = Put(@, enum.name, enum)]
        Element(e) ==
            IF get_name_raises(e) THEN [T EXCEPT !.raised = "AttributeError:_transform_objects"]
            ELSE Stored(Enum(e, Firsts(iter(e, "enumeration"))))
    IN IF T.raised # "none" THEN T
       ELSE Element(get_element_from_tag(P, tag))

\* one iteration of the loop over the enumeration types
TransformEnumeration(P, T, tag) ==
    LET Enum(e, enumerations) ==
            [name |-> get_name(e),
             prefix |-> get_prefix_from_namespace(P, QNameNamespace(tag)),
             tag |-> tag,
             values |-> [i \in 1..Len(enumerations) |-> Get(enumerations[i], "value")],
             descriptions |-> [i \in 1..Len(enumerations) |->
                                   get_element_text(enumerations[i])]]
        Stored(enum) == [T EXCEPT !.schema_enumerators = Put(@, enum.name, enum)]
        Element(e) ==
            IF get_name_raises(e) THEN [T EXCEPT !.raised = "AttributeError:_transform_objects"]
            ELSE Stored(Enum(e, iter(e, "enumeration")))
    IN IF T.raised # "none" THEN T
       ELSE Element(get_element_from_tag(P, tag))

\* the SchemaAttribute of a global simple type or attribute
SchemaAttribute(P, tag, element) ==
    [name |-> get_name(element),
     type |-> get_type(element),
     prefix |-> get_prefix_from_namespace(P, QNameNamespace(tag)),
     restriction |-> get_restriction(element),
     description |-> get_element_text(element)]

\* one iteration of the loop over the simple types
TransformSimpleType(P, T, tag) ==
    LET Element(element) ==
            IF get_name_raises(element)
            THEN [T EXCEPT !.raised = "AttributeError:_transform_objects"]
            ELSE [T EXCEPT !.simple_types = Append(@, SchemaAttribute(P, tag, element))]
    IN IF T.raised # "none" THEN T
       ELSE Element(get_element_from_tag(P, tag))

\* one iteration of the loop over the global attributes
TransformGlobalAttribute(P, T, tag) ==
    LET Element(element) ==
            IF get_name_raises(element)
            THEN [T EXCEPT !.raised = "AttributeError:_transform_objects"]
            ELSE [T EXCEPT !.global_attributes = Append(@, SchemaAttribute(P, tag, element))]
    IN IF T.raised # "none" THEN T
       ELSE Element(get_element_from_tag(P, tag))

\* the four loops of _transform_objects, the loop over the global elements
\* first and the loop over the global attributes last
transform_objects(P, T) ==
    FoldSeq(LAMBDA acc, tag : TransformGlobalAttribute(P, acc, tag),
            FoldSeq(LAMBDA acc, tag : TransformSimpleType(P, acc, tag),
                    FoldSeq(LAMBDA acc, tag : TransformEnumeration(P, acc, tag),
                            FoldSeq(LAMBDA acc, tag : TransformElement(P, acc, tag), T,
                                    get_schema_types(P, "element")),
                            get_schema_types(P, "enumeration")),
                    get_schema_types(P, "simpleType")),
            get_schema_types(P, "attribute"))

\* ------------------------------------------------------------------------
\* The queries of the Transformer
\* ------------------------------------------------------------------------
\* the first prefix that the namespaces of the element bind to its namespace,
\* "" when none does; when that prefix is the default namespace (None) both
\* lookups that follow end in a ValueError and None is returned
get_prefix(ocx) ==
    IF \E i \in 1..Len(ocx.namespaces) : ocx.namespaces[i][2] = ocx.namespace
    THEN ocx.namespaces[CHOOSE i \in 1..Len(ocx.namespaces) :
                           /\ ocx.namespaces[i][2] = ocx.namespace
                           /\ \A j \in 1..(i - 1) :
                                 ocx.namespaces[j][2] # ocx.namespace][1]
    ELSE EmptyStr

filter_ocx(name, prefix, ocx) == name = get_name(ocx.element) /\ prefix = get_prefix(ocx)

\* the tags of the elements that get_ocx_elements() lists
get_ocx_elements(elements) == DOMAIN elements

\* the names of the enumerators that get_enumerators() holds
get_enumerators(enumerators) == DOMAIN enumerators

\* the tag of the element returned, None when no element passes the filter;
\* the element returned is the last one that passes
get_ocx_element_from_type(elements, schema_type) ==
    LET Matches(name, prefix) ==
            { tag \in DOMAIN elements : filter_ocx(name, prefix, elements[tag]) }
        Last(m) == IF m = {} THEN NoneVal ELSE CHOOSE tag \in m : TRUE
    IN Last(Matches(strip_namespace_prefix(schema_type), namespace_prefix(schema_type)))

\* the folders, the one without files included: the files of a folder come in
\* the order of the file system
Folders ==
    { f \in UNION { [1..n -> Files] : n \in 0..MaxFolder } :
        \A i, j \in DOMAIN f : i # j => f[i] # f[j] }

\* one iteration order of the referenced attribute names for every file
NameOrders(f) ==
    { o \in [DOMAIN f -> UNION { Orders(RefAttributeNames(d)) : d \in Files }] :
        \A i \in DOMAIN f : o[i] \in Orders(RefAttributeNames(f[i])) }

\* the loop over the files of the folder; counter = +1 sets the counter to 1
transform_schema_in_folder(P, f, orders) ==
    [result |-> Len(f) > 0,
     P |-> FoldSeq(LAMBDA acc, i : process_xsd_from_file(acc, f[i], orders[i]).P, P,
                   [i \in 1..Len(f) |-> i])]

\* ------------------------------------------------------------------------
\* SchemaDownloader (ocxdownloader/downloader.py)
\* ------------------------------------------------------------------------
\* A URI is a sequence of tokens: the scheme, "://" and the host when it has
\* them, then the path with "/" between its segments, the suffix last.
UriA == <<"http", "://", "h", "/", "a", ".xsd">>
UriB == <<"http", "://", "h", "/", "b", ".xsd">>
UriC == <<"http", "://", "h", "/", "c", ".xsd">>
UriBad == <<"http", "://", "h", "/", "bad", ".xsd">>
UriGone == <<"http", "://", "h", "/", "gone", ".xsd">>
UriService == <<"http", "://", "h", "/", "s", ".wsdl">>
UriLocal == <<"local", "/", "d", ".xsd">>
UriNoHost == <<"http", "://", "/", "a", ".xsd">>
Uris == {UriA, UriB, UriC, UriBad, UriGone, UriService, UriLocal, UriNoHost}

\* what is behind the URIs: a document that parses, one that does not
\* ("broken"), or nothing; included are its xs:import and xs:include as the
\* schema parser hands them over, the resolved location and the
\* schemaLocation attribute as written.  A and B import each other.
Web ==
    [u \in Uris |->
        CASE u = UriA -> [content |-> "schema",
                          included |-> <<[location |-> UriB, schema_location |-> <<"b", ".xsd">>],
                                         [location |-> UriGone, schema_location |-> <<"gone", ".xsd">>]>>]
          [] u = UriB -> [content |-> "schema",
                          included |-> <<[location |-> UriA, schema_location |-> <<"a", ".xsd">>],
                                         [location |-> UriC, schema_location |-> <<"c", ".xsd">>]>>]
          [] u = UriC -> [content |-> "schema",
                          included |-> <<[location |-> UriBad, schema_location |-> <<"bad", ".xsd">>],
                                         [location |-> UriC, schema_location |-> <<"c", ".xsd">>]>>]
          [] u = UriBad -> [content |-> "broken", included |-> << >>]
          [] u = UriService -> [content |-> "schema",
                                included |-> <<[location |-> UriA, schema_location |-> <<"a", ".xsd">>]>>]
          [] u = UriLocal -> [content |-> "schema",
                              included |-> <<[location |-> UriNoHost, schema_location |-> <<"a", ".xsd">>]>>]
          [] OTHER -> [content |-> "missing", included |-> << >>]]

\* urlparse(uri).scheme, .netloc and .path
UriScheme(uri) == IF Len(uri) >= 2 /\ uri[2] = "://" THEN <<uri[1]>> ELSE EmptyStr
UriNetloc(uri) ==
    IF UriScheme(uri) # EmptyStr /\ Len(uri) >= 3 /\ uri[3] # "/" THEN <<uri[3]>>
    ELSE EmptyStr
UriPath(uri) ==
    IF UriScheme(uri) = EmptyStr THEN uri
    ELSE SubSeq(uri, 3 + Len(UriNetloc(uri)), Len(uri))

is_valid_uri(uri) ==
    IF UriScheme(uri) = EmptyStr THEN FALSE
    ELSE IF UriScheme(uri) = <<"file">> THEN UriPath(uri) # EmptyStr
    ELSE UriNetloc(uri) # EmptyStr

\* Path(uri).name: what follows the last "/"
PathName(uri) ==
    Bind({i \in 1..Len(uri) : uri[i] = "/"},
         LAMBDA slashes :
            IF slashes = {} THEN uri
            ELSE SubSeq(uri, (CHOOSE i \in slashes : \A j \in slashes : j <= i) + 1,
                        Len(uri)))

\* the downloader as a record
Downloader ==
    [downloaded |-> downloaded, schema_folder |-> schema_folder,
     fetched |-> fetched, wget_stack |-> wget_stack, printed |-> printed]

InitDownloader ==
    [downloaded |-> EmptyDict, schema_folder |-> {}, fetched |-> << >>,
     wget_stack |-> << >>, printed |-> "none"]

\* write_file(uri, location, content)
write_file(D, uri, location) ==
    [D EXCEPT !.schema_folder = @ \cup {PathName(uri)},
              !.downloaded =
                  IF location # NoneVal /\ location # EmptyStr
                  THEN Put(Put(@, uri, PathName(uri)), location, PathName(uri))
                  ELSE Put(@, uri, PathName(uri))]

\* lines 77-79 of wget: the URI and the location are marked before the fetch
MarkDownloading(D, uri, location) ==
    [D EXCEPT !.downloaded =
                  IF location # NoneVal /\ location # EmptyStr
                  THEN Put(Put(@, uri, NoneVal), location, NoneVal)
                  ELSE Put(@, uri, NoneVal)]

\* lines 81-88 of wget: opener.open(uri).read() or the read of a local file;
\* what the except clause prints for the exception raised when there is
\* nothing to read
FetchError(uri) ==
    IF uri \in Uris /\ Web[uri].content # "missing" THEN "none"
    ELSE IF is_valid_uri(uri) THEN "error" ELSE "not found"

\* wget that returns early only for a URI whose file was written
wget_written_only(D, uri, location) ==
    IF uri \in DOMAIN D.downloaded /\ D.downloaded[uri] # NoneVal THEN D
    ELSE Bind([MarkDownloading(D, uri, location) EXCEPT !.fetched = Append(@, uri)],
              LAMBDA M :
                 IF FetchError(uri) # "none"
                 THEN [M EXCEPT !.printed = FetchError(uri)]
                 ELSE IF Web[uri].content = "broken"
                 THEN [M EXCEPT !.printed = "error"]
                 ELSE [M EXCEPT !.wget_stack =
                                    Append(@, [uri |-> uri, location |-> location,
                                               todo |-> Web[uri].included])])

\* wget(uri, location) up to the first nested call: the return of line 75,
\* or the marks, the fetch and the parse of the document.  A frame on the
\* stack is a call that waits for the nested calls of parse_schema or
\* parse_definitions on its document: todo are the inclusions still to be
\* passed to wget.
wget(D, uri, location) ==
    IF uri \in DOMAIN D.downloaded THEN D
    ELSE Bind([MarkDownloading(D, uri, location) EXCEPT !.fetched = Append(@, uri)],
              LAMBDA M :
                 IF FetchError(uri) # "none"
                 THEN [M EXCEPT !.printed = FetchError(uri)]
                 ELSE IF Web[uri].content = "broken"
                 THEN [M EXCEPT !.printed = "error"]
                 ELSE [M EXCEPT !.wget_stack =
                                    Append(@, [uri |-> uri, location |-> location,
                                               todo |-> Web[uri].included])])

\* the end of wget: write_file unless the document was a WSDL
wget_return(D) ==
    Bind(D.wget_stack[Len(D.wget_stack)],
         LAMBDA top :
            Bind([D EXCEPT !.wget_stack = SubSeq(@, 1, Len(@) - 1)],
                 LAMBDA P :
                    IF top.uri[Len(top.uri)] = ".wsdl" THEN P
                    ELSE write_file(P, top.uri, top.location)))

\* the next inclusion of the document of the innermost call is passed to wget
wget_included(D) ==
    Bind(D.wget_stack[Len(D.wget_stack)],
         LAMBDA top :
            wget([D EXCEPT !.wget_stack[Len(D.wget_stack)].todo = Tail(@)],
                 top.todo[1].location, top.todo[1].schema_location))

\* ------------------------------------------------------------------------
\* OcxSchema._parse_schema (parser.py)
\* ------------------------------------------------------------------------
\* the schema files by location: whether the file exists and is well-formed,
\* the namespace map and the target namespace of its root, and its
\* xs:import children as <<namespace, schemaLocation>>.  Ship and Hull
\* import each other, Loop imports itself.
LocShip == <<"ship", ".xsd">>
LocHull == <<"hull", ".xsd">>
LocLoop == <<"loop", ".xsd">>
LocYard == <<"yard", ".xsd">>
LocUnit == <<"unit", ".xsd">>
LocAlien == <<"alien", ".xsd">>
LocTorn == <<"torn", ".xsd">>
LocNone == <<"none", ".xsd">>
Locations == {LocShip, LocHull, LocLoop, LocYard, LocUnit, LocAlien, LocTorn,
              LocNone}

SchemaFile(nsmap, target, imports) ==
    [exists |-> TRUE, well_formed |-> TRUE, nsmap |-> nsmap, target |-> target,
     imports |-> imports]

Disk ==
    [l \in Locations |->
        CASE l = LocShip -> SchemaFile(<<<<S("ship"), S("urn:ship")>>>>, S("urn:ship"),
                                       <<<<S("urn:hull"), LocHull>>>>)
          [] l = LocHull -> SchemaFile(<<<<S("hull"), S("urn:hull")>>>>, S("urn:hull"),
                                       <<<<S("urn:ship"), LocShip>>>>)
          [] l = LocLoop -> SchemaFile(<<<<S("loop"), S("urn:loop")>>>>, S("urn:loop"),
                                       <<<<S("urn:loop"), LocLoop>>>>)
          [] l = LocYard -> SchemaFile(<<<<S("yard"), S("urn:yard")>>>>, S("urn:yard"),
                                       <<<<S("urn:unit"), LocUnit>>,
                                         <<S("urn:none"), LocNone>>,
                                         <<S("urn:torn"), LocTorn>>>>)
          [] l = LocUnit -> SchemaFile(<<<<S("unit"), S("urn:unit")>>>>, S("urn:unit"),
                                       << >>)
          [] l = LocAlien -> SchemaFile(<<<<S("unit"), S("urn:alien")>>>>, S("urn:alien"),
                                        << >>)
          [] l = LocTorn -> [SchemaFile(<< >>, NoneVal, << >>)
                                EXCEPT !.well_formed = FALSE]
          [] OTHER -> [SchemaFile(<< >>, NoneVal, << >>)
                          EXCEPT !.exists = FALSE, !.well_formed = FALSE]]

\* the OcxSchema as a record
Schema ==
    [namespaces |-> ocx_schema_namespaces, is_parsed |-> is_parsed,
     parse_stack |-> parse_stack, parsed |-> parsed,
     raised |-> raised, returned |-> returned]

InitSchema ==
    [namespaces |-> <<<<S("xml"), S("http://www.w3.org/XML/1998/namespace")>>>>,
     is_parsed |-> FALSE, parse_stack |-> << >>, parsed |-> << >>,
     raised |-> "none", returned |-> "None"]

\* OcxSchema._add_namespace: a prefix that is registered keeps its namespace
ocx_add_namespace(registry, nsmap) ==
    FoldSeq(LAMBDA acc, b : IF HasKey(acc, b[1]) THEN acc ELSE Append(acc, b),
            registry, nsmap)

\* the return of a call of _parse_schema: to process_schema, or into
\* self._is_parsed of the call that passed the import, which breaks its
\* loop over the imports on False
parse_schema_return(O, value) ==
    IF O.parse_stack = << >>
    THEN [O EXCEPT !.returned = IF value THEN "True" ELSE "False"]
    ELSE [O EXCEPT !.is_parsed = value,
                   !.parse_stack[Len(O.parse_stack)].todo = IF value THEN @ ELSE << >>]

\* _parse_schema(schema_url) for a local location, up to its loop over the
\* imports: a call that goes on to the loop is a frame on the stack, todo
\* are the imports still to be parsed.  The look-up tables of the document
\* are built once more whenever the call gets that far; parsed records it.
parse_schema(O, schema_url) ==
    IF ~Disk[schema_url].exists THEN parse_schema_return(O, FALSE)
    ELSE IF ~Disk[schema_url].well_formed
    THEN parse_schema_return([O EXCEPT !.is_parsed = FALSE], FALSE)
    ELSE Bind([O EXCEPT !.is_parsed = TRUE,
                        !.namespaces = ocx_add_namespace(@, Disk[schema_url].nsmap)],
              LAMBDA P :
                 IF Disk[schema_url].target \notin Values(P.namespaces)
                 THEN parse_schema_return([P EXCEPT !.is_parsed = FALSE], FALSE)
                 ELSE [P EXCEPT !.parsed = Append(@, schema_url),
                                !.parse_stack =
                                    Append(@, [url |-> schema_url,
                                               todo |-> Disk[schema_url].imports])])

\* the loop over the imports passes the next one to _parse_schema
parse_imported(O) ==
    Bind(O.parse_stack[Len(O.parse_stack)],
         LAMBDA top :
            parse_schema([O EXCEPT !.parse_stack[Len(O.parse_stack)].todo = Tail(@)],
                         top.todo[1][2]))

\* ------------------------------------------------------------------------
\* The state machine
\* ------------------------------------------------------------------------
SetParser(P) ==
    /\ schema_namespaces' = P.schema_namespaces
    /\ target_ns' = P.target_ns
    /\ root' = P.root
    /\ all_schema_elements' = P.all_schema_elements
    /\ all_types' = P.all_types
    /\ schema_types' = P.schema_types
    /\ schema_version' = P.schema_version
    /\ schema_ns' = P.schema_ns
    /\ substitution_groups' = P.substitution_groups

Init ==
    /\ files = Trees
    /\ schema_namespaces = InitParser.schema_namespaces
    /\ target_ns = InitParser.target_ns
    /\ root = InitParser.root
    /\ all_schema_elements = InitParser.all_schema_elements
    /\ all_types = InitParser.all_types
    /\ schema_types = InitParser.schema_types
    /\ schema_version = InitParser.schema_version
    /\ schema_ns = InitParser.schema_ns
    /\ substitution_groups = InitParser.substitution_groups
    /\ ocx_global_elements = EmptyDict
    /\ schema_enumerators = EmptyDict
    /\ simple_types = << >>
    /\ global_attributes = << >>
    /\ is_transformed = FALSE
    /\ raised = "none"
    /\ returned = "None"
    /\ history = << >>
    /\ downloaded = InitDownloader.downloaded
    /\ schema_folder = InitDownloader.schema_folder
    /\ fetched = InitDownloader.fetched
    /\ wget_stack = InitDownloader.wget_stack
    /\ printed = InitDownloader.printed
    /\ ocx_schema_namespaces = InitSchema.namespaces
    /\ is_parsed = InitSchema.is_parsed
    /\ parse_stack = InitSchema.parse_stack
    /\ parsed = InitSchema.parsed

\* the files ingested so far, in the order of the calls
Ingested == SelectSeq(history, LAMBDA x : x > 0)

\* the ingestions and the runs of _transform_objects so far
Runs == SelectSeq(history, LAMBDA x : x >= 0)

\* parser.process_xsd_from_file(file) on the parser of the transformer
ProcessXsdFromFile(d) ==
    /\ raised = "none"
    /\ Len(Ingested) < MaxIngest
    /\ \E names \in Orders(RefAttributeNames(d)) :
          \E r \in {process_xsd_from_file(Parser, d, names)} :
             /\ SetParser(r.P)
             /\ returned' = IF r.result THEN "True" ELSE "False"
    /\ history' = Append(Runs, d)
    /\ UNCHANGED <<files, transformerVars, raised, downloaderVars, schemaVars>>

\* the fields that _transform_objects leaves in T; result is what
\* transform_schema_in_folder returned
SetTransformer(T, result) ==
    /\ ocx_global_elements' = T.ocx_global_elements
    /\ schema_enumerators' = T.schema_enumerators
    /\ simple_types' = T.simple_types
    /\ global_attributes' = T.global_attributes
    /\ raised' = T.raised
    /\ is_transformed' = IF result /\ T.raised = "none" THEN TRUE ELSE is_transformed
    /\ returned' = IF T.raised # "none" THEN "None"
                   ELSE IF is_transformed' THEN "True" ELSE "False"

\* transform_schema_from_folder(folder); an exception of _transform_objects
\* leaves the call before _is_transformed is set
TransformSchemaFromFolder(f) ==
    /\ raised = "none"
    /\ Len(Ingested) + Len(f) <= MaxIngest
    /\ \E orders \in NameOrders(f) :
          \E r \in {transform_schema_in_folder(Parser, f, orders)} :
             /\ SetParser(r.P)
             /\ \E T \in {IF r.result THEN transform_objects(r.P, TransformerState)
                          ELSE TransformerState} :
                   SetTransformer(T, r.result)
    /\ history' = Runs \o f \o <<IF Len(f) > 0 THEN 0 ELSE -1>>
    /\ UNCHANGED <<files, downloaderVars, schemaVars>>

Next ==
    \/ \E d \in Files : ProcessXsdFromFile(d)
    \/ \E f \in Folders : TransformSchemaFromFolder(f)

Spec == Init /\ [][Next]_vars

\* ------------------------------------------------------------------------
\* The downloader's state machine
\* ------------------------------------------------------------------------
SetDownloader(D) ==
    /\ downloaded' = D.downloaded
    /\ schema_folder' = D.schema_folder
    /\ fetched' = D.fetched
    /\ wget_stack' = D.wget_stack
    /\ printed' = D.printed

\* a caller's downloader.wget(uri), as download_schema_from_url makes it
Wget(uri) ==
    /\ wget_stack = << >>
    /\ SetDownloader(wget(Downloader, uri, NoneVal))
    /\ UNCHANGED <<files, parserVars, transformerVars, raised, returned, history,
                   schemaVars>>

\* the innermost call passes the next inclusion of its document to wget
WgetIncluded ==
    /\ wget_stack # << >>
    /\ wget_stack[Len(wget_stack)].todo # << >>
    /\ SetDownloader(wget_included(Downloader))
    /\ UNCHANGED <<files, parserVars, transformerVars, raised, returned, history,
                   schemaVars>>

\* the innermost call has passed on every inclusion and ends
WgetReturn ==
    /\ wget_stack # << >>
    /\ wget_stack[Len(wget_stack)].todo = << >>
    /\ SetDownloader(wget_return(Downloader))
    /\ UNCHANGED <<files, parserVars, transformerVars, raised, returned, history,
                   schemaVars>>

NextDownloader ==
    \/ \E uri \in Uris : Wget(uri)
    \/ WgetIncluded
    \/ WgetReturn

SpecDownloader == Init /\ [][NextDownloader]_vars

\* ------------------------------------------------------------------------
\* The state machine of OcxSchema._parse_schema
\* ------------------------------------------------------------------------
SetSchema(O) ==
    /\ ocx_schema_namespaces' = O.namespaces
    /\ is_parsed' = O.is_parsed
    /\ parse_stack' = O.parse_stack
    /\ parsed' = O.parsed
    /\ raised' = O.raised
    /\ returned' = O.returned

\* a caller's _parse_schema(schema_url), as process_schema makes it
ParseSchema(schema_url) ==
    /\ raised = "none"
    /\ parse_stack = << >>
    /\ SetSchema(parse_schema([Schema EXCEPT !.parsed = << >>], schema_url))
    /\ UNCHANGED <<files, parserVars, transformerVars, history, downloaderVars>>

\* the innermost call passes its next import to _parse_schema.  Past the
\* interpreter's recursion limit the nested call raises RecursionError: inside
\* self._parser.parse, where its except clause returns False, or outside the
\* try block, which ends every call
ParseImported ==
    /\ parse_stack # << >>
    /\ parse_stack[Len(parse_stack)].todo # << >>
    /\ \/ Len(parse_stack) < MaxDepth /\ SetSchema(parse_imported(Schema))
       \/ /\ Len(parse_stack) = MaxDepth
          /\ SetSchema(parse_schema_return(
                 [Schema EXCEPT !.parse_stack[Len(parse_stack)].todo = Tail(@)], FALSE))
       \/ /\ Len(parse_stack) = MaxDepth
          /\ SetSchema([Schema EXCEPT !.parse_stack = << >>,
                                      !.raised = "RecursionError:_parse_schema",
                                      !.returned = "None"])
    /\ UNCHANGED <<files, parserVars, transformerVars, history, downloaderVars>>

\* the innermost call has passed on every import: return self._is_parsed
ParseSchemaEnd ==
    /\ parse_stack # << >>
    /\ parse_stack[Len(parse_stack)].todo = << >>
    /\ SetSchema(parse_schema_return(
           [Schema EXCEPT !.parse_stack = SubSeq(@, 1, Len(@) - 1)], is_parsed))
    /\ UNCHANGED <<files, parserVars, transformerVars, history, downloaderVars>>

NextSchema ==
    \/ \E schema_url \in Locations : ParseSchema(schema_url)
    \/ ParseImported
    \/ ParseSchemaEnd

SpecSchema == Init /\ [][NextSchema]_vars

\* ------------------------------------------------------------------------
\* Properties
\* ------------------------------------------------------------------------
Range(s) == { s[i] : i \in DOMAIN s }

\* the concatenation of F(x) for the x of s, in the order of s
ConcatMap(F(_), s) == FoldSeq(LAMBDA acc, x : acc \o F(x), << >>, s)

\* _transform_objects was the last call
Fresh == Len(history) > 0 /\ history[Len(history)] = 0

\* the element stored under tag was resolved to its end by the last call, from
\* the parser state of this state: when the call raised, only the elements
\* sorted before the interrupted one were
Completed(tag) ==
    /\ Fresh
    /\ tag \in DOMAIN ocx_global_elements
    /\ ocx_global_elements[tag].err = "none"
    /\ \/ raised \in {"none", "AttributeError:_transform_objects"}
       \/ \E ft \in DOMAIN ocx_global_elements :
             /\ ocx_global_elements[ft].err # "none"
             /\ ft # tag
             /\ StrLeq(tag, ft)

\* the xs:element nodes under a node
ElementSites(node) == find_all_children_with_name(node, "element")

\* C1: a tag of the Raw Element Index keeps the node it was first registered
\* with: no ingestion replaces the node stored under a tag.
C1_FirstRegisteredWins ==
    [][\A tag \in DOMAIN all_schema_elements :
          /\ tag \in DOMAIN all_schema_elements'
          /\ all_schema_elements'[tag] = all_schema_elements[tag]]_vars

\* C2: every prefix of the Namespace Registry stays bound to the URI it was
\* first registered with, an incoming binding of a registered prefix is
\* dropped, no prefix is bound twice, and xml stays bound to the XML namespace.
C2_FirstBindingKept ==
    /\ [](/\ HasKey(schema_namespaces, S("xml"))
          /\ Lookup(schema_namespaces, S("xml")) = XML_NS
          /\ \A i, j \in DOMAIN schema_namespaces :
                schema_namespaces[i][1] = schema_namespaces[j][1] => i = j)
    /\ [][\A i \in DOMAIN schema_namespaces :
            /\ i \in DOMAIN schema_namespaces'
            /\ schema_namespaces'[i] = schema_namespaces[i]]_vars

\* a file was ingested whose binding of a registered prefix names another URI
C2_Witness ==
    \E k \in DOMAIN Ingested : \E b \in Range(Docs[Ingested[k]].nsmap) :
        /\ HasKey(schema_namespaces, b[1])
        /\ Lookup(schema_namespaces, b[1]) # b[2]

\* the children of E when the xs:element nodes of the given parents are
\* scanned after those of E's own node
ChildrenScanning(E, parents) ==
    LET E0 == [E EXCEPT !.children = << >>]
        own == FoldSeq(LAMBDA acc, e : OwnChildStep(Parser, substitution_groups, acc, e),
                       E0, ElementSites(E.element))
    IN FoldSeq(LAMBDA acc, t :
                   FoldSeq(LAMBDA acc2, e :
                               ParentChildStep(Parser, substitution_groups, acc2, e),
                           acc, ElementSites(t[2])),
               own, parents).children

\* C3: the children of an element with the ancestors P1..Pn, n >= 2, are the
\* records of its own node followed by the records of the xs:element nodes
\* under every ancestor, nearest first.
C3_ChildrenFromEveryAncestor ==
    \A tag \in DOMAIN ocx_global_elements :
        LET E == ocx_global_elements[tag]
        IN Completed(tag) /\ Len(E.parents) >= 2
           => E.children = ChildrenScanning(E, E.parents)

\* C4: a use-site under the element's own node or under a scanned ancestor
\* that names the head of a substitution group contributes a record for every
\* member, with the member's name, type and description and the use-site's
\* cardinality and choice flag, and no record for the head itself.
C4_HeadUseSiteExpands ==
    \A tag \in DOMAIN ocx_global_elements :
        LET E == ocx_global_elements[tag]
            prefix == get_prefix_from_namespace(Parser, E.namespace)
            sites == ElementSites(E.element)
                     \o ConcatMap(LAMBDA t : ElementSites(t[2]), ParentsScanned(E.parents))
        IN Completed(tag) =>
           \A i \in DOMAIN sites :
               LET e == sites[i]
                   name == Fmt(prefix) \o <<":">> \o Fmt(get_name(e))
               IN name \in DOMAIN substitution_groups =>
                  /\ \A m \in Range(substitution_groups[name]) :
                        \E c \in Range(E.children) :
                            /\ c.name = get_name(get_element_from_tag(Parser, m))
                            /\ c.type = get_type(get_element_from_tag(Parser, m))
                            /\ c.description = get_element_text(get_element_from_tag(Parser, m))
                            /\ c.cardinality = cardinality_string(e)
                            /\ c.is_choice = is_choice(e)
                  /\ UseSiteChild(Parser, e, prefix).rec \notin Range(E.children)

\* the xs:attribute nodes of the resolvable attribute groups referenced under a node
GroupAttributeSites(node) ==
    ConcatMap(LAMBDA group :
                  IF get_reference(group) # NoneVal
                     /\ get_element_from_type(Parser, get_reference(group))[2] # NoneH
                  THEN find_attributes(get_element_from_type(Parser, get_reference(group))[2])
                  ELSE << >>,
              find_attribute_groups(node))

\* the xs:attribute nodes behind the attribute list of E, in the order of C5
AttributeSites(E) ==
    find_attributes(E.element)
    \o ConcatMap(LAMBDA t : find_attributes(t[2]), E.parents)
    \o GroupAttributeSites(E.element)
    \o ConcatMap(LAMBDA t : GroupAttributeSites(t[2]), E.parents)

\* C5: the attribute list of an element is the records of the xs:attribute
\* nodes of its own node, of every ancestor nearest first, of the resolvable
\* attribute groups of its own node and of those of every ancestor nearest
\* first, in this order, one record for every node whatever its name.
C5_AttributeOrder ==
    \A tag \in DOMAIN ocx_global_elements :
        LET E == ocx_global_elements[tag]
            sites == AttributeSites(E)
        IN Completed(tag) =>
           E.attributes = [k \in 1..Len(sites) |->
                              process_attribute(Parser, sites[k], E.namespace).rec]

\* an element with attributes from all four sources, two of the same name
C5_Witness ==
    \E tag \in DOMAIN ocx_global_elements :
        LET E == ocx_global_elements[tag]
        IN /\ Completed(tag)
           /\ Len(E.parents) >= 2
           /\ Len(find_attributes(E.element)) > 0
           /\ Len(GroupAttributeSites(E.element)) > 0
           /\ \E i, j \in DOMAIN E.parents :
                 /\ Len(find_attributes(E.parents[i][2])) > 0
                 /\ Len(GroupAttributeSites(E.parents[j][2])) > 0
           /\ \E i, j \in DOMAIN E.attributes :
                 i # j /\ E.attributes[i].name = E.attributes[j].name

\* the use-site is a reference to a registered global attribute and has no
\* description of its own
RefersToGlobalAttribute(a) ==
    /\ HasAttr(a, "ref")
    /\ get_element_text(a) = EmptyStr
    /\ get_element_from_type(Parser, Attrs(a)["ref"])[2] # NoneH
    /\ get_localname(get_element_from_type(Parser, Attrs(a)["ref"])[2]) = "attribute"

\* C6: the record of an xs:attribute use-site that refers to a registered
\* global attribute and has no description of its own has the name, the type
\* and the description of the global attribute and the use, default and fixed
\* values of the use-site.
C6_ReferenceSubstitution ==
    \A tag \in DOMAIN ocx_global_elements :
        LET E == ocx_global_elements[tag]
            sites == AttributeSites(E)
        IN Completed(tag) /\ Len(E.attributes) = Len(sites) =>
           \A k \in DOMAIN sites :
               RefersToGlobalAttribute(sites[k]) =>
                  LET g == get_element_from_type(Parser, Attrs(sites[k])["ref"])[2]
                      r == E.attributes[k]
                  IN /\ r.name = Get(g, "name")
                     /\ r.type = get_type(g)
                     /\ r.description = get_element_text(g)
                     /\ r.use = get_use(sites[k])
                     /\ r.default = Get(sites[k], "default")
                     /\ r.fixed = Get(sites[k], "fixed")

\* a record of such a use-site whose type and description are not those the
\* use-site carries and whose default is the one of the use-site
C6_Witness ==
    \E tag \in DOMAIN ocx_global_elements :
        LET E == ocx_global_elements[tag]
            sites == AttributeSites(E)
        IN /\ Completed(tag)
           /\ Len(E.attributes) = Len(sites)
           /\ \E k \in DOMAIN sites :
                 /\ RefersToGlobalAttribute(sites[k])
                 /\ E.attributes[k].description # EmptyStr
                 /\ E.attributes[k].type # get_type(sites[k])
                 /\ E.attributes[k].default # NoneVal

\* C7: no resolution miss is raised: _process_attribute and _process_child
\* end without an exception whatever the reference of the use-site names.
C7_MissNeverRaises ==
    raised \notin {"AttributeError:_process_attribute", "AttributeError:_process_child"}

\* the references looked up in every state
RefInputs ==
    { Q("ocx", "Vessel"), Q("ocx", "Form_T"), Q("ocx", "Nope"), Q("xs", "string"),
      Q("xs", "anySimpleType"), Q("zz", "Thing"), Q("xml", "lang"), S("Vessel"),
      S("string"), <<"ocx", ":", "a", ":", "b">>, EmptyStr }

BuiltinRefs ==
    { Fmt(schema_namespaces[i][1]) \o <<":", n>> :
        i \in { j \in DOMAIN schema_namespaces : schema_namespaces[j][2] = XS_NS },
        n \in BuiltinNames }

Resolve(ref) ==
    IF ref = NoneVal THEN <<NoneVal, NoneH>> ELSE get_element_from_type(Parser, ref)

\* the node declares no type of its own below it
NoInlineType(h) ==
    /\ Len(find_all_children_with_name(h, "complexContent")) = 0
    /\ Len(find_all_children_with_name(h, "simpleType")) = 0
    /\ Len(iter(h, "list")) = 0
    /\ Len(iter(h, "restriction")) = 0

\* the type attribute of an element that is declared with a named type
NamedType(h) ==
    IF HasAttr(h, "type") /\ ~HasAttr(h, "base") /\ ~HasAttr(h, "ref") /\ NoInlineType(h)
    THEN Attrs(h)["type"] ELSE NoneVal

\* the base of the xs:extension of the complex content declared under a node
ExtensionBase(h) ==
    LET ext == find_all_children_with_name_and_attribute(h, "extension", "base")
    IN IF /\ h # NoneH
          /\ ~HasAttr(h, "ref")
          /\ Len(find_all_children_with_name(h, "complexContent")) > 0
          /\ Len(ext) > 0
          /\ Len(find_all_children_with_name(h, "simpleType")) = 0
          /\ Len(iter(h, "list")) = 0
          /\ Len(iter(h, "restriction")) = 0
       THEN Attrs(ext[1])["base"] ELSE NoneVal

\* the walk ends at the node: its type names no registered declaration
IsRoot(h) == h # NoneH /\ Resolve(get_type(h))[1] = NoneVal

\* A is declared with the named type T, T extends B, B extends C, C is a root
NamedChain(A) ==
    LET T == Resolve(NamedType(A))
        B == Resolve(ExtensionBase(T[2]))
        C == Resolve(ExtensionBase(B[2]))
    IN [holds |-> T[1] # NoneVal /\ B[1] # NoneVal /\ C[1] # NoneVal /\ IsRoot(C[2]),
        T |-> T, B |-> B, C |-> C]

\* the type of A is declared under A and extends B, B extends C, C is a root
InlineChain(A) ==
    LET B == Resolve(IF HasAttr(A, "type") THEN NoneVal ELSE ExtensionBase(A))
        C == Resolve(ExtensionBase(B[2]))
    IN [holds |-> B[1] # NoneVal /\ C[1] # NoneVal /\ IsRoot(C[2]), B |-> B, C |-> C]

ElementNodes ==
    { h \in UNION { { <<d, j>> : j \in 1..Len(files[d].nodes) } : d \in Files } :
        Node(h).ln = "element" }

\* the xs:sequence and xs:choice ancestors of a node, in no order
Wrappers(h) ==
    { i \in 1..Len(files[h[1]].nodes) :
        IsUnder(h[1], h[2], i) /\ files[h[1]].nodes[i].ln \in {"sequence", "choice"} }

\* C11: an xs:element without minOccurs and maxOccurs that no xs:sequence and
\* no xs:choice encloses has the cardinality (1, 1) and is no choice; a
\* global element declared by such a node is stored with that cardinality.
C11_CardinalityDefault ==
    /\ \A h \in ElementNodes :
          ~HasAttr(h, "minOccurs") /\ ~HasAttr(h, "maxOccurs") /\ Wrappers(h) = {}
          => /\ cardinality(h) = [lower |-> 1, upper |-> UpperInt(1)]
             /\ is_choice(h) = FALSE
    /\ \A tag \in DOMAIN ocx_global_elements :
          LET h == ocx_global_elements[tag].element
          IN ~HasAttr(h, "minOccurs") /\ ~HasAttr(h, "maxOccurs") /\ Wrappers(h) = {}
             => ocx_global_elements[tag].cardinality = [lower |-> 1, upper |-> UpperInt(1)]

\* a global element declared by such a node has been resolved
C11_Witness ==
    \E tag \in DOMAIN ocx_global_elements :
        LET h == ocx_global_elements[tag].element
        IN /\ Completed(tag)
           /\ ~HasAttr(h, "minOccurs") /\ ~HasAttr(h, "maxOccurs") /\ Wrappers(h) = {}
           /\ ocx_global_elements[tag].cardinality.lower = 1

\* the xs:sequence or xs:choice ancestor of a node that every other such
\* ancestor encloses
Nearest(h) ==
    CHOOSE w \in Wrappers(h) : \A v \in Wrappers(h) \ {w} : IsUnder(h[1], w, v)

\* the bounds the node declares itself
OwnBounds(h) ==
    [lower |-> IF HasAttr(h, "minOccurs") THEN IntOf(Attrs(h)["minOccurs"])
               ELSE IF HasAttr(h, "use")
                    THEN (IF Attrs(h)["use"] \in {S("req"), S("required")} THEN 1 ELSE 0)
                    ELSE 1,
     upper |-> IF HasAttr(h, "maxOccurs") THEN UpperStr(Attrs(h)["maxOccurs"])
               ELSE UpperInt(1)]

\* the bounds of a node: those of its nearest wrapper where the wrapper
\* declares them, its own elsewhere
NearestBounds(h) ==
    IF Wrappers(h) = {} THEN OwnBounds(h)
    ELSE LET w == <<h[1], Nearest(h)>>
         IN [lower |-> IF HasAttr(w, "minOccurs") THEN IntOf(Attrs(w)["minOccurs"])
                       ELSE OwnBounds(h).lower,
             upper |-> IF HasAttr(w, "maxOccurs") THEN UpperStr(Attrs(w)["maxOccurs"])
                       ELSE OwnBounds(h).upper]

NearestIsChoice(h) == Wrappers(h) # {} /\ Node(<<h[1], Nearest(h)>>).ln = "choice"

\* the xs:element nodes scanned for the children of E
ScannedSites(E) ==
    ElementSites(E.element)
    \o ConcatMap(LAMBDA t : ElementSites(t[2]), ParentsScanned(E.parents))

\* C12: the bounds of an xs:element are those its nearest xs:sequence or
\* xs:choice ancestor declares and its own where that wrapper declares none,
\* it is a choice exactly when that wrapper is an xs:choice, whatever a
\* farther wrapper declares or is; every child record carries the bounds and
\* the choice flag so computed for one of the scanned use-sites.
C12_NearestWrapperOnly ==
    /\ \A h \in ElementNodes :
          /\ cardinality(h) = NearestBounds(h)
          /\ is_choice(h) = NearestIsChoice(h)
    /\ \A tag \in DOMAIN ocx_global_elements :
          LET E == ocx_global_elements[tag]
          IN Completed(tag) =>
             \A c \in Range(E.children) :
                 \E e \in Range(ScannedSites(E)) :
                     /\ c.is_choice = NearestIsChoice(e)
                     /\ c.cardinality =
                           <<"[">> \o StrOf(NearestBounds(e).lower) \o <<", ">>
                           \o (IF NearestBounds(e).upper.k = "int"
                               THEN StrOf(NearestBounds(e).upper.i)
                               ELSE IF NearestBounds(e).upper.s = S("unbounded")
                                    THEN S("\\u221E")
                                    ELSE NearestBounds(e).upper.s)
                           \o <<"]">>

\* a child record of a use-site under two wrappers, the farther one an
\* xs:choice with other bounds, and one of a use-site directly in an
\* xs:choice with minOccurs 0
C12_Witness ==
    /\ \E tag \in DOMAIN ocx_global_elements :
          /\ Completed(tag)
          /\ \E e \in Range(ScannedSites(ocx_global_elements[tag])) :
                /\ Cardinality(Wrappers(e)) = 2
                /\ \E v \in Wrappers(e) :
                      /\ v # Nearest(e)
                      /\ Node(<<e[1], v>>).ln = "choice"
                      /\ HasAttr(<<e[1], v>>, "minOccurs")
                /\ ~NearestIsChoice(e)
                /\ \E c \in Range(ocx_global_elements[tag].children) :
                      c.cardinality = <<"[", "1", ", ", "2", "]">> /\ ~c.is_choice
    /\ \E tag \in DOMAIN ocx_global_elements :
          /\ Completed(tag)
          /\ \E c \in Range(ocx_global_elements[tag].children) :
                c.is_choice /\ c.cardinality = <<"[", "0", ", ", "\\u221E", "]">>

\* the xs:enumeration nodes at and under a node, in document order
EnumerationNodes(h) ==
    Handles(h[1], SortedSeq({ j \in 1..Len(files[h[1]].nodes) :
                                /\ j = h[2] \/ IsUnder(h[1], j, h[2])
                                /\ files[h[1]].nodes[j].ln = "enumeration" }))

\* the nodes of the files that carry a name
NamedNodes ==
    { h \in UNION { { <<d, j>> : j \in 1..Len(files[d].nodes) } : d \in Files } :
        HasAttr(h, "name") }

\* C13: the values and the descriptions of every Enumerator have the same
\* length, and entry i of both lists comes from the i-th xs:enumeration node
\* of the declaration in document order: a value that occurs twice has two
\* entries.
C13_EnumeratorPairsInDocumentOrder ==
    \A name \in DOMAIN schema_enumerators :
        LET en == schema_enumerators[name]
        IN /\ Len(en.values) = Len(en.descriptions)
           /\ \E h \in NamedNodes :
                 /\ Attrs(h)["name"] = en.name
                 /\ Len(en.values) = Len(EnumerationNodes(h))
                 /\ \A i \in DOMAIN en.values :
                       /\ en.values[i] = Get(EnumerationNodes(h)[i], "value")
                       /\ en.descriptions[i] = get_element_text(EnumerationNodes(h)[i])

\* an Enumerator with a value that occurs twice, with two descriptions, and
\* with an entry that has no description
C13_Witness ==
    \E name \in DOMAIN schema_enumerators :
        LET en == schema_enumerators[name]
        IN /\ \E i, j \in DOMAIN en.values :
                 /\ i < j
                 /\ en.values[i] = en.values[j]
                 /\ en.descriptions[i] # en.descriptions[j]
           /\ \E i \in DOMAIN en.descriptions : en.descriptions[i] = EmptyStr

\* the step is a call of process_xsd_from_file with file d
Processes(d) == history' = Append(Runs, d)

\* C14: process_xsd_from_file on a parsed document whose targetNamespace is
\* no value of the Namespace Registry after the namespaces of the document
\* were merged returns False and leaves the Raw Element Index, the tag lists,
\* the Substitution Group Index, the schema version and the target namespace
\* as they were.
C14_TargetNamespaceRequired ==
    [][\A d \in Files :
          /\ Processes(d)
          /\ files[d].parsed
          /\ files[d].target \notin Values(schema_namespaces')
          => /\ returned' = "False"
             /\ all_schema_elements' = all_schema_elements
             /\ all_types' = all_types
             /\ substitution_groups' = substitution_groups
             /\ schema_version' = schema_version
             /\ target_ns' = target_ns]_vars

\* the last call was such a call, on a parser that holds an index, a
\* version and a target namespace
C14_Witness ==
    /\ Len(history) > 1
    /\ history[Len(history)] \in Files
    /\ files[history[Len(history)]].parsed
    /\ files[history[Len(history)]].target \notin Values(schema_namespaces)
    /\ \E b \in Range(files[history[Len(history)]].nsmap) :
          b[2] = files[history[Len(history)]].target
    /\ returned = "False"
    /\ DOMAIN all_schema_elements # {}
    /\ DOMAIN substitution_groups # {}
    /\ schema_version # NoneVal

\* the step is a call of transform_schema_from_folder with the files f
Transforms(f) ==
    /\ Len(history') = Len(Runs) + Len(f) + 1
    /\ SubSeq(history', Len(Runs) + 1, Len(Runs) + Len(f)) = f
    /\ history'[Len(history')] \in {0, -1}

\* the parser after the first n files of f were processed
RECURSIVE AfterFiles(_, _, _)
AfterFiles(P, f, n) ==
    IF n = 0 THEN P
    ELSE process_xsd_from_file(AfterFiles(P, f, n - 1), f[n],
                               CHOOSE o \in Orders(RefAttributeNames(f[n])) : TRUE).P

\* a file of f does not parse or fails the check of its target namespace
SomeFileFails(P, f) ==
    \E n \in DOMAIN f : ~parse_xsd_from_file(AfterFiles(P, f, n - 1), f[n]).result

\* C15: a transform_schema_from_folder that returns does not return True
\* when the folder holds no file or when a file of the folder does not parse
\* or fails the check of its target namespace, whatever an earlier call
\* returned.
C15_TrueOnlyWhenIngested ==
    [][\A f \in Folders :
          /\ Transforms(f)
          /\ raised' = "none"
          /\ Len(f) = 0 \/ SomeFileFails(Parser, f)
          => returned' = "False"]_vars

\* no call of _transform_objects has run to its end: the only run, if any,
\* is the last call and it raised
NoTransformSucceeded ==
    \A i \in DOMAIN history :
       history[i] = 0 => i = Len(history) /\ raised # "none"

\* C16: while no transform call has succeeded, is_transformed() is False,
\* get_ocx_elements() and get_enumerators() are empty and
\* get_ocx_element_from_type returns None for every reference.
C16_EmptyBeforeTransform ==
    NoTransformSucceeded
    => /\ is_transformed = FALSE
       /\ get_ocx_elements(ocx_global_elements) = {}
       /\ get_enumerators(schema_enumerators) = {}
       /\ \A x \in RefInputs :
             get_ocx_element_from_type(ocx_global_elements, x) = NoneVal

\* the last call was a transform whose _transform_objects ran to its end
TransformSucceeded ==
    /\ history # <<>>
    /\ history[Len(history)] = 0
    /\ raised = "none"

\* the references "p:name" of an element, one for each named prefix p that
\* the registry binds to the namespace of the element
BoundReferences(tag) ==
    { schema_namespaces[i][1] \o <<":">> \o get_name(ocx_global_elements[tag].element) :
        i \in { j \in 1..Len(schema_namespaces) :
                  /\ schema_namespaces[j][2] = ocx_global_elements[tag].namespace
                  /\ schema_namespaces[j][1] # NoneVal } }

\* C17: after a successful transform get_ocx_element_from_type("p:" + name)
\* returns the global element e for every prefix p that the registry binds to
\* the namespace of e, and None for a reference that belongs to no element.
C17_EveryBoundPrefixFindsElement ==
    TransformSucceeded
    => /\ \A tag \in DOMAIN ocx_global_elements :
             \A x \in BoundReferences(tag) :
                get_ocx_element_from_type(ocx_global_elements, x) = tag
       /\ \A x \in RefInputs :
             (\A tag \in DOMAIN ocx_global_elements : x \notin BoundReferences(tag))
             => get_ocx_element_from_type(ocx_global_elements, x) = NoneVal

\* a session replayed from a fresh Transformer: the calls of the history in
\* their order, every set of referenced names iterated in one fixed order
FixedOrder(T) == CHOOSE s \in Orders(T) : TRUE

FreshSession ==
    [P |-> InitParser,
     T |-> [ocx_global_elements |-> EmptyDict, schema_enumerators |-> EmptyDict,
            simple_types |-> << >>, global_attributes |-> << >>, raised |-> "none"]]

ReplayCall(session, call) ==
    IF call > 0
    THEN [session EXCEPT
             !.P = process_xsd_from_file(@, call, FixedOrder(RefAttributeNames(call))).P]
    ELSE IF call = 0
    THEN [session EXCEPT !.T = transform_objects(session.P, @)]
    ELSE session

Replay(h) == FoldSeq(ReplayCall, FreshSession, h)

\* the Schema Model of a Transformer: the element tags, the attribute and
\* child lists of every element, the enumerators, the simple types and the
\* global attributes
SchemaModel(T) ==
    [tags |-> DOMAIN T.ocx_global_elements,
     attributes |-> [tag \in DOMAIN T.ocx_global_elements |->
                        T.ocx_global_elements[tag].attributes],
     children |-> [tag \in DOMAIN T.ocx_global_elements |->
                      T.ocx_global_elements[tag].children],
     enumerators |-> T.schema_enumerators,
     simple_types |-> T.simple_types,
     global_attributes |-> T.global_attributes]

\* C18: two fresh sessions that ingest the same files in the same order hold
\* the same Schema Model: after every run of _transform_objects the session,
\* whatever the order in which it iterated the sets of referenced attribute
\* names, holds the model of the session replayed from its history.
C18_SameHistorySameModel ==
    Fresh => SchemaModel(TransformerState) = SchemaModel(Replay(history).T)

\* a transformed session that registered the referenced attributes of the
\* Winch schema in the other order than the replayed session
C18_Witness ==
    /\ history = <<6, 0>>
    /\ raised = "none"
    /\ all_types # Replay(history).P.all_types
    /\ Len(global_attributes) = 2
    /\ \E tag \in DOMAIN ocx_global_elements :
          Len(ocx_global_elements[tag].attributes) = 2

\* C19: every xs:element under the own node of a global element whose name
\* is not the head of a substitution group adds exactly one child record
\* built from that node: the children hold that record as many times as there
\* are scanned use-sites, no head among them, that build it.
C19_OwnSiteOneRecord ==
    \A tag \in DOMAIN ocx_global_elements :
        LET E == ocx_global_elements[tag]
            prefix == get_prefix_from_namespace(Parser, E.namespace)
            sites == ScannedSites(E)
            IsHead(e) == Fmt(prefix) \o <<":">> \o Fmt(get_name(e)) \in DOMAIN substitution_groups
            own == ElementSites(E.element)
        IN Completed(tag) =>
           \A i \in DOMAIN own :
               ~IsHead(own[i]) =>
               Cardinality({ k \in DOMAIN E.children :
                               E.children[k] = UseSiteChild(Parser, own[i], prefix).rec })
               = Cardinality({ j \in DOMAIN sites :
                                 /\ ~IsHead(sites[j])
                                 /\ UseSiteChild(Parser, sites[j], prefix).rec
                                    = UseSiteChild(Parser, own[i], prefix).rec })

\* all the nodes of the schema files
AllNodes == UNION { { <<d, j>> : j \in 1..Len(files[d].nodes) } : d \in Files }

\* the value of the first source of a type that applies to a node, in the
\* order type=, base=, ref=, complexContent, simpleType, list, restriction
FirstSource(h) ==
    LET ext(node) == find_all_children_with_name_and_attribute(node, "extension", "base")
        res(node) == find_all_children_with_name_and_attribute(node, "restriction", "base")
        Nested(node) == IF Len(ext(node)) > 0 THEN Attrs(ext(node)[1])["base"]
                        ELSE Attrs(res(node)[1])["base"]
        HasNested(node) == Len(ext(node)) > 0 \/ Len(res(node)) > 0
        cc == find_all_children_with_name(h, "complexContent")
        st == find_all_children_with_name(h, "simpleType")
    IN IF HasAttr(h, "type") THEN Attrs(h)["type"]
       ELSE IF HasAttr(h, "base") THEN Attrs(h)["base"]
       ELSE IF HasAttr(h, "ref") THEN Attrs(h)["ref"]
       ELSE IF Len(cc) > 0 /\ HasNested(h) THEN Nested(h)
       ELSE IF Len(st) > 0 /\ HasNested(st[1]) THEN Nested(st[1])
       ELSE IF Len(iter(h, "list")) > 0
       THEN <<"List of type ">> \o Fmt(Get(iter(h, "list")[1], "itemType"))
       ELSE IF Len(iter(h, "restriction")) > 0
       THEN <<"Restriction of type ">> \o Fmt(Get(iter(h, "restriction")[1], "base"))
       ELSE NoneVal

\* C20: get_type returns the value of the first source that applies, so a node
\* with type= that contains an xs:restriction yields the value of type=.
C20_FirstSourceWins ==
    \A h \in AllNodes : get_type(h) = FirstSource(h)

\* the base of the xs:restriction of the complex content declared under a node
RestrictionBase(h) ==
    LET res == find_all_children_with_name_and_attribute(h, "restriction", "base")
    IN IF h # NoneH /\ Len(find_all_children_with_name(h, "complexContent")) > 0 /\ Len(res) > 0
       THEN Attrs(res[1])["base"] ELSE NoneVal

\* C21: when the named type T of a global element is derived by
\* complexContent/restriction from a registered base B, B is among the
\* parents of the element.
C21_RestrictionBaseIsParent ==
    \A tag \in DOMAIN ocx_global_elements :
        LET E == ocx_global_elements[tag]
            T == Resolve(Get(E.element, "type"))
            B == Resolve(RestrictionBase(T[2]))
        IN Completed(tag) /\ T[1] # NoneVal /\ B[1] # NoneVal
           => HasKey(E.parents, B[1])

\* C22: the walk of _find_parents stops at a self-reference: an element whose
\* type reference resolves to its own tag is resolved without exhausting the
\* stack.
C22_SelfReferenceStops ==
    \A tag \in DOMAIN ocx_global_elements :
        Fresh /\ Resolve(get_type(ocx_global_elements[tag].element))[1] = tag
        => ocx_global_elements[tag].err # "RecursionError:_find_parents"

\* the links of the chain of type references that starts at a tag, at most n
\* of them: the declarations <<tag, node>> that the type reference of the
\* node before resolves to
RECURSIVE TypeChain(_, _)
TypeChain(tag, n) ==
    LET r == Resolve(get_type(get_element_from_tag(Parser, tag)))
    IN IF n = 0 \/ get_element_from_tag(Parser, tag) = NoneH \/ r[1] = NoneVal THEN << >>
       ELSE <<r>> \o TypeChain(r[1], n - 1)

\* the chain ends within the depth followed and visits no tag twice
Acyclic(tag) ==
    LET c == TypeChain(tag, MaxDepth)
    IN /\ Len(c) < MaxDepth
       /\ \A i \in DOMAIN c : c[i][1] # tag /\ \A j \in DOMAIN c : c[i][1] = c[j][1] => i = j

\* the last call walked the ancestors of the element stored under tag, from
\* the parser state of this state
Walked(tag) ==
    /\ Fresh
    /\ tag \in DOMAIN ocx_global_elements
    /\ \/ raised \in {"none", "AttributeError:_transform_objects"}
       \/ \E ft \in DOMAIN ocx_global_elements :
             ocx_global_elements[ft].err # "none" /\ StrLeq(tag, ft)

\* C23: for a global element with an acyclic chain of type references the
\* walk ends, and the parents are the resolved links of the chain in their
\* order, up to the first node without a type or with a type reference that
\* resolves to no node of the index.
C23_AcyclicWalkEndsAtFirstMiss ==
    \A tag \in DOMAIN ocx_global_elements :
        Walked(tag) /\ Acyclic(tag)
        => /\ ocx_global_elements[tag].err # "RecursionError:_find_parents"
           /\ ocx_global_elements[tag].parents = TypeChain(tag, MaxDepth)

\* a walked element with three links and one with none
C23_Witness ==
    /\ \E tag \in DOMAIN ocx_global_elements :
          Walked(tag) /\ Acyclic(tag) /\ Len(ocx_global_elements[tag].parents) = 3
    /\ \E tag \in DOMAIN ocx_global_elements :
          /\ Walked(tag) /\ Acyclic(tag) /\ Len(ocx_global_elements[tag].parents) = 0
          /\ get_type(ocx_global_elements[tag].element) # NoneVal

\* the xs:attribute nodes named schemaVersion of a file, in document order
VersionNodes(d) ==
    SelectSeq([j \in 1..Len(files[d].nodes) |-> <<d, j>>],
              LAMBDA h : Node(h).ln = "attribute" /\ Get(h, "name") = S("schemaVersion"))

\* the positions of the ingestions that succeeded with a file that declares
\* a schema version
VersionedIngestions ==
    { n \in DOMAIN Ingested :
        /\ Len(VersionNodes(Ingested[n])) > 0
        /\ parse_xsd_from_file(AfterFiles(InitParser, Ingested, n - 1), Ingested[n]).result }

\* C24: the schema version of the session is the fixed value of the
\* schemaVersion attribute of the last file that was ingested with success
\* and declares one, and None before any such file was ingested.
C24_LastDeclaredVersion ==
    IF VersionedIngestions = {} THEN schema_version = NoneVal
    ELSE \E n \in VersionedIngestions :
            /\ \A m \in VersionedIngestions : m <= n
            /\ schema_version = Get(VersionNodes(Ingested[n])[1], "fixed")

\* two files that declare different versions were ingested with success
C24_Witness ==
    /\ Cardinality(VersionedIngestions) = 2
    /\ \E n, m \in VersionedIngestions :
          /\ n < m
          /\ Get(VersionNodes(Ingested[n])[1], "fixed") # schema_version
          /\ Get(VersionNodes(Ingested[m])[1], "fixed") = schema_version


\* a call wget(uri) by a caller, or by the innermost call in progress on the
\* next inclusion of its document
WgetCalled(uri) ==
    \/ Wget(uri)
    \/ WgetIncluded /\ wget_stack[Len(wget_stack)].todo[1].location = uri

\* the number of reads of uri so far
Fetches(uri) == Len(SelectSeq(fetched, LAMBDA u : u = uri))

\* C25: wget reads each URI at most once per downloader: a call wget(u) with
\* u already a key of downloaded, be it downloaded, failed or in progress,
\* reads nothing and leaves downloaded as it is; so the calls in progress
\* are on different URIs and schemas that import each other do not recurse
\* without end.
C25_EachUriFetchedOnce ==
    /\ [](\A u \in Uris : Fetches(u) <= 1)
    /\ [](\A i, j \in 1..Len(wget_stack) :
             wget_stack[i].uri = wget_stack[j].uri => i = j)
    /\ [][\A u \in Uris :
             WgetCalled(u) /\ u \in DOMAIN downloaded
             => UNCHANGED <<downloaded, fetched, schema_folder>>]_vars

\* the call on A has ended after UriGone had failed: B, read for A's import,
\* passed its import of A to wget while the call on A was in progress, and
\* A passed its import of the failed UriGone; neither was read again
C25_Witness ==
    /\ wget_stack = << >>
    /\ fetched = <<UriGone, UriA, UriB, UriC, UriBad>>
    /\ downloaded[UriA] = <<"a", ".xsd">>
    /\ downloaded[UriB] = <<"b", ".xsd">>
    /\ downloaded[UriGone] = NoneVal


\* the number of times the running call of _parse_schema, or the last one,
\* has built the look-up tables of the location
Ingestions(location) == Len(SelectSeq(parsed, LAMBDA l : l = location))

\* C26: _parse_schema passes over a location that it has already ingested:
\* on schema files whose xs:import references are cyclic it ends without an
\* exception, and one call ingests each document once.
C26_CyclicImportsIngestedOnce ==
    /\ raised # "RecursionError:_parse_schema"
    /\ \A l \in Locations : Ingestions(l) <= 1

\* the cycle goes on until the interpreter's recursion limit ends the call
C26_CycleEndsInRecursionError ==
    ~(raised = "RecursionError:_parse_schema" /\ Ingestions(LocShip) > 1)

\* ... or until the except clause of the deepest call turns it into False
C26_CycleEndsInFalse ==
    ~(returned = "False" /\ parse_stack = << >> /\ Ingestions(LocHull) > 1)


\* the use that the lower bound in a cardinality string "[lower, upper]" asks for
UseOfCardinality(c) == IF SubSeq(c, 2, 2) = S("0") THEN S("opt.") ELSE S("req.")

\* C27: in every resolved global element the use of each child record agrees
\* with the record's cardinality: "opt." when the lower bound is 0 and "req."
\* otherwise, the records of substitution-group members included.
C27_UseAgreesWithCardinality ==
    \A tag \in DOMAIN ocx_global_elements :
        Completed(tag) =>
            \A i \in 1..Len(ocx_global_elements[tag].children) :
                ocx_global_elements[tag].children[i].use
                    = UseOfCardinality(ocx_global_elements[tag].children[i].cardinality)


\* the node is a declaration of the kind
DeclaresKind(h, kind) ==
    IF kind = "enumeration"
    THEN get_localname(h) \in {"attribute", "attributeGroup"} /\ is_enumeration(h)
    ELSE get_localname(h) = kind

\* C28: after any ingestions, the node that the Raw Element Index stores for
\* a tag listed under a kind is a declaration of that kind (for the kind
\* enumeration an attribute or attribute group with xs:enumeration below it);
\* so every tag of get_schema_element_types() maps to an xs:element node.
C28_ListedKindIsStoredKind ==
    \A kind \in Kinds :
        \A i \in 1..Len(all_types[kind]) :
            /\ all_types[kind][i] \in DOMAIN all_schema_elements
            /\ DeclaresKind(all_schema_elements[all_types[kind][i]], kind)


\* the last two calls were transform_schema_from_folder on the same folder,
\* on a fresh Transformer, and both returned
SameFolderTwice ==
    /\ raised = "none"
    /\ Len(history) > 0
    /\ Len(history) % 2 = 0
    /\ history[Len(history)] = 0
    /\ SubSeq(history, 1, Len(history) \div 2)
           = SubSeq(history, Len(history) \div 2 + 1, Len(history))

\* the session after the first of the two calls
AfterFirstCall == Replay(SubSeq(history, 1, Len(history) \div 2))

\* C29: transform_schema_from_folder called twice on one Transformer with
\* the same folder leaves the model of one call: the same global elements
\* with attribute and child lists of the same length, and simple-type,
\* global-attribute, substitution-group and per-kind tag lists of the same
\* length, no entry twice.
C29_SecondTransformChangesNothing ==
    SameFolderTwice =>
        /\ DOMAIN ocx_global_elements = DOMAIN AfterFirstCall.T.ocx_global_elements
        /\ \A tag \in DOMAIN ocx_global_elements :
              /\ Len(ocx_global_elements[tag].attributes)
                    = Len(AfterFirstCall.T.ocx_global_elements[tag].attributes)
              /\ Len(ocx_global_elements[tag].children)
                    = Len(AfterFirstCall.T.ocx_global_elements[tag].children)
        /\ Len(simple_types) = Len(AfterFirstCall.T.simple_types)
        /\ Len(global_attributes) = Len(AfterFirstCall.T.global_attributes)
        /\ DOMAIN substitution_groups = DOMAIN AfterFirstCall.P.substitution_groups
        /\ \A group \in DOMAIN substitution_groups :
              Len(substitution_groups[group])
                  = Len(AfterFirstCall.P.substitution_groups[group])
        /\ \A kind \in Kinds :
              Len(all_types[kind]) = Len(AfterFirstCall.P.all_types[kind])

\* the per-kind tag lists alone are doubled by the second call
C29_TagListsKept ==
    SameFolderTwice =>
        \A kind \in Kinds : Len(all_types[kind]) = Len(AfterFirstCall.P.all_types[kind])

\* the simple types and the global attributes are listed twice
C29_TypeListsKept ==
    SameFolderTwice =>
        /\ Len(simple_types) = Len(AfterFirstCall.T.simple_types)
        /\ Len(global_attributes) = Len(AfterFirstCall.T.global_attributes)

\* the members of a substitution group are expanded twice at every use-site
C29_ChildListsKept ==
    SameFolderTwice =>
        \A tag \in DOMAIN ocx_global_elements :
            tag \in DOMAIN AfterFirstCall.T.ocx_global_elements
            => Len(ocx_global_elements[tag].children)
                  = Len(AfterFirstCall.T.ocx_global_elements[tag].children)


\* a fresh parser has ingested two different files
TwoFilesIngested ==
    /\ Len(Ingested) = 2
    /\ Ingested[1] # Ingested[2]
    /\ Runs \in {Ingested, Append(Ingested, 0)}

\* the parser that ingested the same two files in the other order
OtherOrder == Replay(<<Ingested[2], Ingested[1]>>).P

\* C30: the Namespace Registry, the Raw Element Index and the schema version
\* that ingesting a set of schema files leaves in one OcxParser do not depend
\* on the order in which the files were processed.
C30_FileOrderIrrelevant ==
    TwoFilesIngested =>
        /\ Range(schema_namespaces) = Range(OtherOrder.schema_namespaces)
        /\ all_schema_elements = OtherOrder.all_schema_elements
        /\ schema_version = OtherOrder.schema_version

\* the registry alone depends on the order: a prefix keeps its first binding
C30_RegistryOrderIrrelevant ==
    TwoFilesIngested => Range(schema_namespaces) = Range(OtherOrder.schema_namespaces)

\* the index alone depends on the order: a tag keeps the node stored last
C30_IndexOrderIrrelevant ==
    TwoFilesIngested => all_schema_elements = OtherOrder.all_schema_elements

\* the version alone depends on the order: the last declared version stays
C30_VersionOrderIrrelevant ==
    TwoFilesIngested => schema_version = OtherOrder.schema_version

====
